---- MODULE Spec2Model ----
(***************************************************************************)
(* Model of the piping-assessment geometry code of stph_scheldestromen:    *)
(* SoilProfile / SoilLayer (objects/soilprofile.py, objects/soillayer.py), *)
(* Crosssection (objects/crosssection.py) and Scenario.to_dgeoflow_model   *)
(* (objects/scenario.py).                                                  *)
(*                                                                         *)
(* Coordinates are integers, chosen so that every linear interpolation the *)
(* code performs has an exact integer result (the Python code computes the *)
(* same expressions in binary floating point): for the operations of a     *)
(* Crosssection alone, elevations are multiples of ZUnit and horizontal     *)
(* distances divide ZUnit; for the scenarios, slopes fall one unit of z per *)
(* 10 m and every cut lies at a multiple of 10 m.  Conductivities are in   *)
(* 1/10000 m/day, heads in tenths of the unit of z.                        *)
(*                                                                         *)
(* The intersection of polygons is the work of a library (shapely): the    *)
(* model computes the pieces of the result geometrically and leaves to     *)
(* the variable shapely what the library is free to choose: the winding of *)
(* a ring, its first vertex, whether vertices on straight edges are kept,  *)
(* and whether the boundary of an empty polygon has coordinates.           *)
(***************************************************************************)
EXTENDS Integers, Sequences, FiniteSets, TLC

VARIABLES
    soillayers,      \* SoilProfile.soillayers, top to bottom
    aquifer_number,  \* SoilProfile.aquifer_number
    points,          \* Crosssection.points
    scenario,        \* the scalar fields of the Scenario that to_dgeoflow_model reads
    shapely,         \* the conventions of the polygon library's results (winding, first vertex, nodes)
    calls,           \* the operations so far: what was called, with what, on what, and how it ended
    ret,             \* what the last operation returned (or the exception it raised)
    inputdata,       \* main.InputData: the soil profiles and the scenarios that refer to them
    loop             \* the batch loop of main: its combination, its scenario, how it goes

vars == <<soillayers, aquifer_number, points, scenario, shapely, calls, ret, inputdata, loop>>

----------------------------------------------------------------------------
(* Bounds of the model *)

\* elevations of layer boundaries are 0 .. MaxLevel (in ZUnit); cuts range one beyond
MaxLevel == 4

\* surveyed x coordinates are 0 .. MaxX; truncations range one beyond
MaxX == 2

\* a surveyed cross-section has at most MaxPoints points
MaxPoints == 3

\* a run consists of at most MaxCalls operations
MaxCalls == 2

\* a soil name has at most MaxNameLen characters
MaxNameLen == 4

\* the batch has at most MaxScenarios scenarios
MaxScenarios == 2

----------------------------------------------------------------------------
(* Helpers *)

Min(a, b) == IF a <= b THEN a ELSE b
Max(a, b) == IF a >= b THEN a ELSE b

SetMin(S) == CHOOSE m \in S : \A s \in S : m <= s
SetMax(S) == CHOOSE m \in S : \A s \in S : m >= s

\* the elements of s at the indices K, in the order of s
Pick(s, K) ==
    [i \in 1..Cardinality(K) |->
        s[CHOOSE k \in K : Cardinality({j \in K : j < k}) = i - 1]]

Reverse(s) == [i \in 1..Len(s) |-> s[Len(s) + 1 - i]]

\* the operations of the run so far, and room for one more
Remember(c) == Append(calls, c)
CanCall == Len(calls) < MaxCalls

\* what an operation returns
NoValue == [exc |-> "none", value |-> <<>>]
Returned(v) == [exc |-> "none", value |-> v]
Raised(e) == [exc |-> e, value |-> <<>>]

----------------------------------------------------------------------------
(* SoilLayer and SoilProfile *)

SoilLayer(soil_name, top, bottom, is_aquifer, aq_nr) ==
    [soil_name |-> soil_name, top |-> top, bottom |-> bottom,
     is_aquifer |-> is_aquifer, aquifer_number |-> aq_nr]

\* SoilProfile.top: raises ValueError on a profile without layers
SoilProfileTop(layers) ==
    IF Len(layers) = 0 THEN Raised("ValueError") ELSE Returned(layers[1].top)

\* SoilProfile.bottom: raises ValueError on a profile without layers
SoilProfileBottom(layers) ==
    IF Len(layers) = 0 THEN Raised("ValueError") ELSE Returned(layers[Len(layers)].bottom)

\* a plausible slip: the layers are walked top-down ([::-1] forgotten)
get_soillayer_z_top_down(layers) ==
    LET result == [i \in 1..Len(layers) |-> layers[i].bottom]
    IN  IF Len(layers) > 0 THEN Append(result, layers[1].top) ELSE result

\* SoilProfile.get_soillayer_z_coordinates
get_soillayer_z_coordinates(layers) ==
    LET result == [i \in 1..Len(layers) |-> Reverse(layers)[i].bottom]
    IN  IF Len(layers) > 0 THEN Append(result, layers[1].top) ELSE result

\* a plausible slip: the branch that keeps the layers below z untouched is
\* missing, so every layer that is not dropped gets the clamped copy
cut_top_clamp_all(layers, z) ==
    LET straddles(sl) == sl.bottom < z
        kept == SelectSeq(layers, straddles)
    IN  [i \in 1..Len(kept) |->
            SoilLayer(kept[i].soil_name, z, kept[i].bottom, kept[i].is_aquifer,
                      kept[i].aquifer_number)]

\* SoilProfile.cut_top_at_z: the value assigned to self.soillayers.  Each layer
\* is handled on its own: appended as it is (top <= z), skipped (bottom >= z),
\* or appended as a new SoilLayer with top = z
cut_top_at_z(layers, z) ==
    LET appended(sl) == sl.top <= z \/ ~(sl.bottom >= z)
        kept == SelectSeq(layers, appended)
    IN  [i \in 1..Len(kept) |->
            IF kept[i].top <= z
            THEN kept[i]
            ELSE SoilLayer(kept[i].soil_name, z, kept[i].bottom, kept[i].is_aquifer,
                           kept[i].aquifer_number)]

----------------------------------------------------------------------------
(* The soil profiles the operations are applied to *)

RECURSIVE Factorial(_)
Factorial(n) == IF n <= 1 THEN 1 ELSE n * Factorial(n - 1)

\* one unit of elevation: every x distance of the model divides it
ZUnit == Factorial(MaxX + 1)

Levels == {k * ZUnit : k \in 0..MaxLevel}
CutLevels == {k * ZUnit : k \in -1..(MaxLevel + 1)}

\* SoilProfile.aquifer: the index of the highest layer with
\* is_aquifer == aquifer_number, 0 for None
SoilProfileAquifer(layers, aq_nr) ==
    LET found == {i \in 1..Len(layers) : layers[i].is_aquifer = aq_nr}
    IN  IF found = {} THEN 0 ELSE SetMin(found)

\* get_sth_intredepunt_zs that does not stop at the aquifer
get_sth_intredepunt_zs_to_surface(layers, aq_nr) ==
    IF SoilProfileAquifer(layers, aq_nr) = 0 THEN [is_none |-> TRUE, zs |-> <<>>]
    ELSE [is_none |-> FALSE, zs |-> get_soillayer_z_coordinates(layers)]

\* SoilProfile.get_sth_intredepunt_zs: the bottoms from the deepest layer
\* upward until the layer that equals the aquifer, then that layer's top;
\* None when the loop ends without meeting the aquifer
get_sth_intredepunt_zs(layers, aq_nr) ==
    LET aq == SoilProfileAquifer(layers, aq_nr)
        n == Len(layers)
        met == {i \in 1..n : aq > 0 /\ layers[i] = layers[aq]}
        stop == IF met = {} THEN 0 ELSE SetMax(met)
        below == [i \in 1..(n + 1 - stop) |-> layers[n + 1 - i].bottom]
    IN  IF stop = 0 THEN [is_none |-> TRUE, zs |-> <<>>]
        ELSE [is_none |-> FALSE, zs |-> Append(below, layers[stop].top)]

\* what a borehole row says of a layer besides its elevations
LayerKinds ==
    { [soil_name |-> <<"C", "K">>, is_aquifer |-> 0, aquifer_number |-> 1],
      [soil_name |-> <<"Z", "A", "_", "A", "q">>, is_aquifer |-> 1, aquifer_number |-> 1] }

\* the elements of a set of numbers, highest first
SortDesc(S) ==
    CHOOSE s \in [1..Cardinality(S) -> S] :
        /\ \A i \in 1..(Cardinality(S) - 1) : s[i] > s[i + 1]
        /\ {s[i] : i \in 1..Cardinality(S)} = S

\* contiguous layers between the boundaries B, top to bottom, of the kinds k
ProfileOf(B, k) ==
    LET b == SortDesc(B)
    IN  [i \in 1..(Cardinality(B) - 1) |->
            SoilLayer(k[i].soil_name, b[i], b[i + 1], k[i].is_aquifer,
                      k[i].aquifer_number)]

Profiles ==
    UNION { { ProfileOf(B, k) : k \in [1..(Cardinality(B) - 1) -> LayerKinds] } :
            B \in {S \in SUBSET Levels : Cardinality(S) >= 2} }

Contiguous(layers) ==
    /\ \A i \in 1..Len(layers) : layers[i].top > layers[i].bottom
    /\ \A i \in 1..(Len(layers) - 1) : layers[i].bottom = layers[i + 1].top

----------------------------------------------------------------------------
(* Operations on a SoilProfile *)

Before == [soillayers |-> soillayers, points |-> points]

\* the Scenario fields next to its crosssection and soilprofile
Scenario(x_intredepunt, x_uittredepunt, sth_intredepunt, sth_uittredepunt, polderpeil) ==
    [ x_intredepunt |-> x_intredepunt, x_uittredepunt |-> x_uittredepunt,
      sth_intredepunt |-> sth_intredepunt, sth_uittredepunt |-> sth_uittredepunt,
      gehanteerd_polderpeil |-> polderpeil ]

\* no Scenario and no polygon library take part in the operations of a
\* SoilProfile or a Crosssection alone
NoScenario == Scenario(0, 0, 0, 0, 0)
NoShapely == [ccw |-> FALSE, start |-> 0, nodes |-> FALSE, empty_coords |-> FALSE]

\* no batch takes part in the operations on one object
NoInputData == [soilprofiles |-> <<>>, scenarios |-> <<>>]
NoLoop == [combination |-> 0, scenario |-> 0, status |-> "none"]

Call(op, arg, exc) == [op |-> op, arg |-> arg, exc |-> exc, before |-> Before]

InitProfile ==
    /\ soillayers \in Profiles
    /\ aquifer_number \in {-1, 1}
    /\ points = <<>>
    /\ scenario = NoScenario
    /\ shapely = NoShapely
    /\ calls = <<>>
    /\ ret = NoValue
    /\ inputdata = NoInputData
    /\ loop = NoLoop

CutTopAtZ(z) ==
    /\ CanCall
    /\ soillayers' = cut_top_at_z(soillayers, z)
    /\ calls' = Remember(Call("cut_top_at_z", z, "none"))
    /\ ret' = NoValue
    /\ UNCHANGED <<aquifer_number, points, scenario, shapely, inputdata, loop>>

GetSoillayerZCoordinates ==
    /\ CanCall
    /\ ret' = Returned(get_soillayer_z_coordinates(soillayers))
    /\ calls' = Remember(Call("get_soillayer_z_coordinates", 0, "none"))
    /\ UNCHANGED <<soillayers, aquifer_number, points, scenario, shapely, inputdata, loop>>

GetSthIntredepuntZs ==
    /\ CanCall
    /\ ret' = Returned(get_sth_intredepunt_zs(soillayers, aquifer_number))
    /\ calls' = Remember(Call("get_sth_intredepunt_zs", 0, "none"))
    /\ UNCHANGED <<soillayers, aquifer_number, points, scenario, shapely, inputdata, loop>>

NextProfile ==
    \/ \E z \in CutLevels : CutTopAtZ(z)
    \/ GetSoillayerZCoordinates
    \/ GetSthIntredepuntZs

SpecProfile == InitProfile /\ [][NextProfile]_vars

\* the last call and the one before it
Last == calls[Len(calls)]
Prev == calls[Len(calls) - 1]


StrictlyIncreasing(s) == \A i \in 1..(Len(s) - 1) : s[i] < s[i + 1]

----------------------------------------------------------------------------
(* Claims about SoilProfile, checked under SpecProfile *)

AfterCut == Len(calls) > 0 /\ Last.op = "cut_top_at_z"

\* the layers a cut at z drops: those that lie at or above z
Dropped(old, z) == {i \in 1..Len(old) : old[i].bottom >= z}

\* C1: after cut_top_at_z(z) the layer list is, in the original order, every
\* layer with top <= z unchanged, the (single) layer with bottom < z < top as a
\* copy with top = z and everything else the same, and no layer with
\* bottom >= z; a cut at a layer boundary removes exactly the layers above it, a
\* cut above the top changes nothing, a cut below the bottom leaves no layer,
\* and the number of layers never grows.
C1_CutTopAtZ ==
    AfterCut =>
        LET old == Last.before.soillayers
            z == Last.arg
            d == Cardinality(Dropped(old, z))
        IN  /\ Dropped(old, z) = 1..d
            /\ Len(soillayers) = Len(old) - d
            /\ \A j \in 1..Len(soillayers) :
                   LET sl == old[j + d]
                   IN  /\ sl.top <= z => soillayers[j] = sl
                       /\ sl.top > z =>
                              /\ j = 1
                              /\ soillayers[j].top = z
                              /\ soillayers[j].bottom = sl.bottom
                              /\ soillayers[j].soil_name = sl.soil_name
                              /\ soillayers[j].is_aquifer = sl.is_aquifer
                              /\ soillayers[j].aquifer_number = sl.aquifer_number
            /\ (\E i \in 1..Len(old) : old[i].top = z) =>
                   soillayers = SelectSeq(old, LAMBDA sl : sl.top <= z)
            /\ (Len(old) > 0 /\ z >= old[1].top) => soillayers = old
            /\ (Len(old) > 0 /\ z <= old[Len(old)].bottom) => soillayers = <<>>
            /\ Len(soillayers) <= Len(old)

\* C1 witness: a cut that dropped a layer, clamped the next and kept a third
C1_Witness ==
    /\ AfterCut
    /\ LET old == Last.before.soillayers
           z == Last.arg
       IN  /\ \E i \in 1..Len(old) : old[i].bottom >= z
           /\ \E i \in 1..Len(old) : old[i].bottom < z /\ z < old[i].top
           /\ \E i \in 1..Len(old) : old[i].top <= z

\* C2 as stated: for every non-empty contiguous profile and every z, after
\* cut_top_at_z(z) the profile's top equals min(original top, z).
C2_TopAfterCut_AsStated ==
    (AfterCut /\ Len(Last.before.soillayers) > 0 /\ Contiguous(Last.before.soillayers)) =>
        SoilProfileTop(soillayers) =
            Returned(Min(Last.before.soillayers[1].top, Last.arg))

\* C2 amended: for every non-empty contiguous profile and every z above the
\* profile's bottom, after cut_top_at_z(z) the profile's top equals
\* min(original top, z); a cut at or below the bottom leaves no layer, and top
\* then raises ValueError.
C2_TopAfterCut ==
    (AfterCut /\ Len(Last.before.soillayers) > 0 /\ Contiguous(Last.before.soillayers)) =>
        LET old == Last.before.soillayers
            z == Last.arg
        IN  IF z > old[Len(old)].bottom
            THEN SoilProfileTop(soillayers) = Returned(Min(old[1].top, z))
            ELSE soillayers = <<>> /\ SoilProfileTop(soillayers) = Raised("ValueError")

\* C2 witness: a cut strictly inside the profile, which lowered its top
C2_Witness ==
    /\ AfterCut
    /\ Len(Last.before.soillayers) > 0
    /\ Last.arg > Last.before.soillayers[Len(Last.before.soillayers)].bottom
    /\ Last.arg < Last.before.soillayers[1].top
    /\ Len(soillayers) > 0
    /\ soillayers[1].top = Last.arg

\* C3: cut_top_at_z(z_low) followed by cut_top_at_z(z_high) with
\* z_low <= z_high leaves the layer list that the first cut produced.
C3_RecutHigherIsNoOp ==
    (/\ Len(calls) >= 2
     /\ Prev.op = "cut_top_at_z"
     /\ Last.op = "cut_top_at_z"
     /\ Prev.arg <= Last.arg) =>
        soillayers = Last.before.soillayers

\* C3 witness: a first cut that changed the profile, then a strictly higher cut
C3_Witness ==
    /\ Len(calls) >= 2
    /\ Prev.op = "cut_top_at_z"
    /\ Last.op = "cut_top_at_z"
    /\ Prev.arg < Last.arg
    /\ Prev.before.soillayers # Last.before.soillayers
    /\ Len(soillayers) > 0

AfterGetZ == Len(calls) > 0 /\ Last.op = "get_soillayer_z_coordinates"

\* the bottoms of the layers from the deepest layer upward, then the top of the first
BoundariesBottomUp(layers, zs) ==
    /\ \A i \in 1..Len(layers) : zs[i] = layers[Len(layers) + 1 - i].bottom
    /\ zs[Len(layers) + 1] = layers[1].top

\* C4 as stated: for every SoilProfile get_soillayer_z_coordinates() returns
\* len(soillayers) + 1 values, strictly increasing: the bottoms from the deepest
\* layer upward, then the top of the first layer.
C4_ZCoordinates_AsStated ==
    AfterGetZ =>
        /\ Len(ret.value) = Len(soillayers) + 1
        /\ StrictlyIncreasing(ret.value)
        /\ BoundariesBottomUp(soillayers, ret.value)

\* C4 amended: for every SoilProfile with at least one layer
\* get_soillayer_z_coordinates() returns len(soillayers) + 1 values, strictly
\* increasing: the bottoms from the deepest layer upward, then the top of the
\* first layer; for a profile without layers it returns the empty list.
C4_ZCoordinates ==
    AfterGetZ =>
        IF Len(soillayers) > 0
        THEN /\ Len(ret.value) = Len(soillayers) + 1
             /\ StrictlyIncreasing(ret.value)
             /\ BoundariesBottomUp(soillayers, ret.value)
        ELSE ret.value = <<>>

\* C4 witness: the coordinates of a profile of three layers were asked for
C4_Witness ==
    AfterGetZ /\ Len(soillayers) = 3 /\ Len(ret.value) = 4

AfterGetSth == Len(calls) > 0 /\ Last.op = "get_sth_intredepunt_zs"

\* C12: for a profile with an aquifer get_sth_intredepunt_zs() returns the
\* layer bottoms from the deepest layer upward up to and including the bottom
\* of the aquifer layer, followed by the top of the aquifer layer as last
\* value, and no elevation above the aquifer top; for a profile without an
\* aquifer it returns None.
C12_SthIntredepuntZs ==
    AfterGetSth =>
        LET aq == SoilProfileAquifer(soillayers, aquifer_number)
            n == Len(soillayers)
            zs == ret.value.zs
        IN  IF aq = 0 THEN ret.value.is_none
            ELSE /\ ~ret.value.is_none
                 /\ Len(zs) = n - aq + 2
                 /\ \A i \in 1..(n - aq + 1) : zs[i] = soillayers[n + 1 - i].bottom
                 /\ zs[Len(zs)] = soillayers[aq].top
                 /\ \A i \in 1..Len(zs) : zs[i] <= soillayers[aq].top

\* C12 witness: the elevations were asked of a cut profile whose aquifer lies
\* under another layer
C12_Witness ==
    /\ AfterGetSth
    /\ Len(calls) = 2 /\ Prev.op = "cut_top_at_z"
    /\ SoilProfileAquifer(soillayers, aquifer_number) > 1
    /\ Len(soillayers) > SoilProfileAquifer(soillayers, aquifer_number)
    /\ ~ret.value.is_none

\* C12 witness of the other case: None for a profile without an aquifer
C12_WitnessNone ==
    /\ AfterGetSth
    /\ Len(soillayers) > 0
    /\ SoilProfileAquifer(soillayers, aquifer_number) = 0
    /\ ret.value.is_none

----------------------------------------------------------------------------
(* CrosssectionPoint and Crosssection *)

CrosssectionPoint(x, z, point_type) == [x |-> x, z |-> z, point_type |-> point_type]

\* settings.PROFIEL_IDS[0] through settings.DICT_POINT_IDS: the point types of a
\* surveyed profile, in the order of the survey row
PROFIEL_IDS ==
    << "MV_BINNEN", "SLOOT_1A", "SLOOT_1C", "SLOOT_1D", "SLOOT_1B", "WEG_1",
       "TEEN_1", "BERM_1A", "BERM_1B", "KRUIN_1", "KRUIN_2", "BERM_2A",
       "BERM_2B", "TEEN_2", "WEG_2", "SLOOT_2", "MV_BUITEN" >>

\* Crosssection.left / Crosssection.right: min / max raise ValueError on no points
CrosssectionLeft(pts) ==
    IF Len(pts) = 0 THEN Raised("ValueError")
    ELSE Returned(SetMin({pts[i].x : i \in 1..Len(pts)}))

CrosssectionRight(pts) ==
    IF Len(pts) = 0 THEN Raised("ValueError")
    ELSE Returned(SetMax({pts[i].x : i \in 1..Len(pts)}))

\* a plausible slip: the mirrored points are built without the type of the original
mirror_untyped(pts) ==
    Reverse([i \in 1..Len(pts) |-> CrosssectionPoint(-1 * pts[i].x, pts[i].z, "NONE")])

\* Crosssection.mirror: the value assigned to self.points
mirror(pts) ==
    Reverse([i \in 1..Len(pts) |->
                CrosssectionPoint(-1 * pts[i].x, pts[i].z, pts[i].point_type)])

\* z on the segment p1-p2 at x: p1.z + (x - p1.x) / (p2.x - p1.x) * (p2.z - p1.z)
\* (exact here: the x distance divides the z difference)
Interpolate(p1, p2, x) == p1.z + ((x - p1.x) * (p2.z - p1.z)) \div (p2.x - p1.x)

\* the concatenation of pieces[lo], ..., pieces[hi]
RECURSIVE Concat(_, _, _)
Concat(pieces, lo, hi) ==
    IF lo > hi THEN <<>> ELSE pieces[lo] \o Concat(pieces, lo + 1, hi)

\* the first point gets another type (self.points[0].point_type = ...);
\* IndexError when there is no point
RetypeFirst(pts, point_type) ==
    IF Len(pts) = 0
    THEN [points |-> pts, exc |-> "IndexError"]
    ELSE [points |-> [pts EXCEPT ![1].point_type = point_type], exc |-> "none"]

\* a plausible slip: the loop of limit_left without its `if i == 1`, so that
\* every pass appends both points of the pair
LimitLeftStepBothPoints(pts, i, left) ==
    LET p1 == pts[i - 1]
        p2 == pts[i]
    IN  IF p2.x < left THEN <<>>
        ELSE IF p1.x < left /\ p2.x > left
        THEN <<CrosssectionPoint(left, Interpolate(p1, p2, left), "MV_BUITEN")>>
        ELSE <<p1, p2>>

\* what one pass of the loop of limit_left appends for the pair (i - 1, i)
LimitLeftStep(pts, i, left) ==
    LET p1 == pts[i - 1]
        p2 == pts[i]
    IN  IF p2.x < left THEN <<>>
        ELSE IF p1.x < left /\ p2.x > left
        THEN <<CrosssectionPoint(left, Interpolate(p1, p2, left), "MV_BUITEN")>>
        ELSE (IF i = 2 THEN <<p1>> ELSE <<>>) \o <<p2>>

\* Crosssection.limit_left: the points it leaves and the exception it raises
limit_left(pts, left) ==
    LET new_points == Concat([i \in 2..Len(pts) |-> LimitLeftStep(pts, i, left)],
                             2, Len(pts))
    IN  RetypeFirst(new_points, "MV_BUITEN")

\* whether the segment (i - 1, i) crosses the cut of limit_right
CrossesRight(pts, i, right) == pts[i - 1].x < right /\ pts[i].x > right

\* what one pass of the loop of limit_right appends for the pair (i - 1, i)
LimitRightStep(pts, i, right) ==
    LET p1 == pts[i - 1]
        p2 == pts[i]
    IN  IF CrossesRight(pts, i, right)
        THEN <<CrosssectionPoint(right, Interpolate(p1, p2, right), "MV_BINNEN")>>
        ELSE (IF i = 2 THEN <<p1>> ELSE <<>>) \o <<p2>>

\* Crosssection.limit_right: the loop ends (break) with the first crossing segment
limit_right(pts, right) ==
    LET crossing == {i \in 2..Len(pts) : CrossesRight(pts, i, right)}
        last == IF crossing = {} THEN Len(pts) ELSE SetMin(crossing)
        new_points == Concat([i \in 2..Len(pts) |-> LimitRightStep(pts, i, right)],
                             2, last)
    IN  RetypeFirst(new_points, "MV_BINNEN")

\* Crosssection.get_point_by_point_type: the index of the first point of the
\* type, 0 for None
get_point_by_point_type(pts, point_type) ==
    LET found == {i \in 1..Len(pts) : pts[i].point_type = point_type}
    IN  IF found = {} THEN 0 ELSE SetMin(found)

----------------------------------------------------------------------------
(* The cross-sections the operations are applied to: up to MaxPoints points *)
(* of non-decreasing x, typed in the order of the survey row                *)

XValues == 0..MaxX
ZValues == {0, ZUnit}
\* cuts range from one left of the profile to one right of it
CutValues(pts) ==
    IF Len(pts) = 0 THEN {0}
    ELSE (CrosssectionLeft(pts).value - 1)..(CrosssectionRight(pts).value + 1)

OrderedByX(pts) == \A i \in 1..(Len(pts) - 1) : pts[i].x <= pts[i + 1].x

Crosssections ==
    UNION { { [i \in 1..n |-> CrosssectionPoint(xs[i], zs[i], PROFIEL_IDS[i])] :
                xs \in {f \in [1..n -> XValues] : \A i \in 1..(n - 1) : f[i] <= f[i + 1]},
                zs \in [1..n -> ZValues] } :
            n \in 0..MaxPoints }

InitCross ==
    /\ points \in Crosssections
    /\ soillayers = <<>>
    /\ aquifer_number = -1
    /\ scenario = NoScenario
    /\ shapely = NoShapely
    /\ calls = <<>>
    /\ ret = NoValue
    /\ inputdata = NoInputData
    /\ loop = NoLoop

Mirror ==
    /\ CanCall
    /\ points' = mirror(points)
    /\ calls' = Remember(Call("mirror", 0, "none"))
    /\ ret' = NoValue
    /\ UNCHANGED <<soillayers, aquifer_number, scenario, shapely, inputdata, loop>>

LimitLeft(left) ==
    /\ CanCall
    /\ points' = limit_left(points, left).points
    /\ calls' = Remember(Call("limit_left", left, limit_left(points, left).exc))
    /\ ret' = IF limit_left(points, left).exc = "none" THEN NoValue
              ELSE Raised(limit_left(points, left).exc)
    /\ UNCHANGED <<soillayers, aquifer_number, scenario, shapely, inputdata, loop>>

LimitRight(right) ==
    /\ CanCall
    /\ points' = limit_right(points, right).points
    /\ calls' = Remember(Call("limit_right", right, limit_right(points, right).exc))
    /\ ret' = IF limit_right(points, right).exc = "none" THEN NoValue
              ELSE Raised(limit_right(points, right).exc)
    /\ UNCHANGED <<soillayers, aquifer_number, scenario, shapely, inputdata, loop>>

NextCross ==
    \/ Mirror
    \/ \E x \in CutValues(points) : LimitLeft(x)
    \/ \E x \in CutValues(points) : LimitRight(x)

SpecCross == InitCross /\ [][NextCross]_vars

----------------------------------------------------------------------------
(* Claims about Crosssection, checked under SpecCross *)

\* C5: mirror() applied twice restores the original point sequence: the same
\* order and the same x, z and point_type of every point.
C5_MirrorInvolution ==
    (Len(calls) >= 2 /\ Prev.op = "mirror" /\ Last.op = "mirror") =>
        points = Prev.before.points

\* C5 witness: mirrored twice, a profile that one mirror() changes
C5_Witness ==
    /\ Len(calls) >= 2
    /\ Prev.op = "mirror"
    /\ Last.op = "mirror"
    /\ Len(points) >= 2
    /\ Last.before.points # points
    /\ \E i \in 1..Len(points) : points[i].x # 0

\* C6 as stated: on a cross-section ordered by non-decreasing x, limit_left at
\* the current left bound followed by limit_right at the current right bound
\* leaves the number of points unchanged (so neither call fails, and the first
\* one already leaves the number unchanged).
C6_LimitAtBounds ==
    /\ (/\ Len(calls) >= 1
        /\ Last.op = "limit_left"
        /\ OrderedByX(Last.before.points)
        /\ CrosssectionLeft(Last.before.points) = Returned(Last.arg)) =>
            (Last.exc = "none" /\ Len(points) = Len(Last.before.points))
    /\ (/\ Len(calls) >= 2
        /\ Prev.op = "limit_left"
        /\ OrderedByX(Prev.before.points)
        /\ CrosssectionLeft(Prev.before.points) = Returned(Prev.arg)
        /\ Last.op = "limit_right"
        /\ CrosssectionRight(Last.before.points) = Returned(Last.arg)) =>
            (Last.exc = "none" /\ Len(points) = Len(Prev.before.points))

\* C6 on cross-sections of at least two points, where the statement holds
C6_LimitAtBounds_TwoPoints ==
    /\ (/\ Len(calls) >= 1
        /\ Last.op = "limit_left"
        /\ Len(Last.before.points) >= 2
        /\ OrderedByX(Last.before.points)
        /\ CrosssectionLeft(Last.before.points) = Returned(Last.arg)) =>
            (Last.exc = "none" /\ Len(points) = Len(Last.before.points))
    /\ (/\ Len(calls) >= 2
        /\ Prev.op = "limit_left"
        /\ Len(Prev.before.points) >= 2
        /\ OrderedByX(Prev.before.points)
        /\ CrosssectionLeft(Prev.before.points) = Returned(Prev.arg)
        /\ Last.op = "limit_right"
        /\ CrosssectionRight(Last.before.points) = Returned(Last.arg)) =>
            (Last.exc = "none" /\ Len(points) = Len(Prev.before.points))

\* the coordinates of the points, without their types
Coordinates(pts) == [i \in 1..Len(pts) |-> <<pts[i].x, pts[i].z>>]

StrictlyOrderedByX(pts) == \A i \in 1..(Len(pts) - 1) : pts[i].x < pts[i + 1].x

\* the cut lies between the left and the right end of a cross-section of at
\* least one segment
CutWithin(pts, x) ==
    /\ Len(pts) >= 2
    /\ StrictlyOrderedByX(pts)
    /\ pts[1].x <= x
    /\ x <= pts[Len(pts)].x

\* the coordinates of the point on the profile at x, where no point lies at x
OnCrossingSegment(pts, x) ==
    LET i == CHOOSE k \in 2..Len(pts) : pts[k - 1].x < x /\ x < pts[k].x
    IN  <<x, Interpolate(pts[i - 1], pts[i], x)>>

\* the coordinates the cut at x is said to leave on the side of the kept points
KeptSide(pts, x, kept) ==
    LET original == Coordinates(Pick(pts, {i \in 1..Len(pts) : kept[i]}))
    IN  IF \E i \in 1..Len(pts) : pts[i].x = x THEN original
        ELSE IF kept[1] THEN Append(original, OnCrossingSegment(pts, x))
        ELSE <<OnCrossingSegment(pts, x)>> \o original

\* C13: for every cross-section ordered by increasing x and every cut x_left
\* between its left and right end, limit_left(x_left) leaves exactly every
\* original point with x >= x_left, in the original order, preceded by one
\* synthetic point at (x_left, interpolated z) when no original point lies at
\* x_left: no point with x < x_left remains and no point of the kept side is lost.
C13_LimitLeftKeeps ==
    (/\ Len(calls) >= 1
     /\ Last.op = "limit_left"
     /\ CutWithin(Last.before.points, Last.arg)) =>
        LET old == Last.before.points
        IN  /\ Last.exc = "none"
            /\ Coordinates(points) =
                   KeptSide(old, Last.arg, [i \in 1..Len(old) |-> old[i].x >= Last.arg])

\* C14: for every cross-section ordered by increasing x and every cut x_right
\* between its left and right end, limit_right(x_right) leaves exactly every
\* original point with x <= x_right, in the original order, followed by one
\* synthetic point at (x_right, interpolated z) when no original point lies at
\* x_right: no point with x > x_right remains, the last point has x = x_right
\* and no point of the kept side (the first point included) is lost.
C14_LimitRightKeeps ==
    (/\ Len(calls) >= 1
     /\ Last.op = "limit_right"
     /\ CutWithin(Last.before.points, Last.arg)) =>
        LET old == Last.before.points
        IN  /\ Last.exc = "none"
            /\ Coordinates(points) =
                   KeptSide(old, Last.arg, [i \in 1..Len(old) |-> old[i].x <= Last.arg])
            /\ points[Len(points)].x = Last.arg

\* C15: after limit_left the first point has type MV_BUITEN and after
\* limit_right the last point has type MV_BINNEN, also when that end coincides
\* with an existing point; a truncation changes the type of no other point, so
\* after limit_left followed by limit_right the first point is still MV_BUITEN.
C15_EndpointTypes ==
    /\ (/\ Len(calls) >= 1
        /\ Last.op = "limit_left"
        /\ Last.exc = "none"
        /\ CutWithin(Last.before.points, Last.arg)) =>
            points[1].point_type = "MV_BUITEN"
    /\ (/\ Len(calls) >= 1
        /\ Last.op = "limit_right"
        /\ Last.exc = "none"
        /\ CutWithin(Last.before.points, Last.arg)) =>
            points[Len(points)].point_type = "MV_BINNEN"
    /\ (/\ Len(calls) >= 2
        /\ Prev.op = "limit_left"
        /\ Prev.exc = "none"
        /\ CutWithin(Prev.before.points, Prev.arg)
        /\ Last.op = "limit_right"
        /\ Last.exc = "none"
        /\ CutWithin(Last.before.points, Last.arg)
        /\ Len(points) >= 2) =>
            points[1].point_type = "MV_BUITEN"

----------------------------------------------------------------------------
(* Scenario.to_dgeoflow_model: the soil profile under the cross-section *)

\* a vertex of a polygon
Point(x, z) == [x |-> x, z |-> z]

\* the ring read from its (k + 1)-th vertex on
Rotate(ring, k) ==
    [i \in 1..Len(ring) |-> ring[((i - 1 + k) % Len(ring)) + 1]]

\* the vertex before and after the k-th vertex of a ring
RingPrev(ring, k) == ring[IF k = 1 THEN Len(ring) ELSE k - 1]
RingNext(ring, k) == ring[(k % Len(ring)) + 1]

\* the ring without vertices that repeat the vertex before them
Dedupe(ring) == Pick(ring, {k \in 1..Len(ring) : ring[k] # RingPrev(ring, k)})

\* whether b lies on the line through a and c
Collinear(a, b, c) == (b.x - a.x) * (c.z - a.z) = (b.z - a.z) * (c.x - a.x)

\* the ring without the vertices that lie on the line through their neighbours
RemoveCollinear(ring) ==
    Pick(ring, {k \in 1..Len(ring) :
                    ~Collinear(RingPrev(ring, k), ring[k], RingNext(ring, k))})

\* x where the segment p-q passes elevation z (p.z # q.z)
CrossX(p, q, z) == p.x + ((z - p.z) * (q.x - p.x)) \div (q.z - p.z)

\* crs_polygon: the surface points followed by (right_limit, bottom) and
\* (left_limit, bottom); read here from its last vertex, so that it runs up the
\* left side, along the surface and down the right side
CrsChain(pts, left_limit, right_limit, bottom) ==
    <<Point(left_limit, bottom)>>
        \o [i \in 1..Len(pts) |-> Point(pts[i].x, pts[i].z)]
        \o <<Point(right_limit, bottom)>>

\* the stretches i..j of the chain that lie above elevation b: what is left of
\* crs_polygon above b consists of one piece per stretch
HighRuns(E, b) ==
    { r \in (2..(Len(E) - 1)) \X (2..(Len(E) - 1)) :
        /\ r[1] <= r[2]
        /\ \A k \in r[1]..r[2] : E[k].z > b
        /\ E[r[1] - 1].z <= b
        /\ E[r[2] + 1].z <= b }

\* the segments of the chain that run along elevation b, and the vertices
\* where the chain touches b from below: there crs_polygon meets the lower
\* edge of a layer in a line or a point, not in an area
FlatAt(E, b) ==
    {k \in 2..(Len(E) - 2) : E[k].z = b /\ E[k + 1].z = b /\ E[k].x # E[k + 1].x}
PeakAt(E, b) ==
    {k \in 2..(Len(E) - 1) : E[k].z = b /\ E[k - 1].z < b /\ E[k + 1].z < b}

\* one edge of a ring against the half plane z <= t (Sutherland-Hodgman)
ClipEdge(cur, nxt, t) ==
    IF cur.z <= t
    THEN IF nxt.z <= t THEN <<nxt>> ELSE <<Point(CrossX(cur, nxt, t), t)>>
    ELSE IF nxt.z <= t THEN <<Point(CrossX(cur, nxt, t), t), nxt>> ELSE <<>>

\* the part of a ring at or below elevation t, read from the same vertex on
ClipTop(ring, t) ==
    LET clipped == Concat([k \in 1..Len(ring) |->
                             ClipEdge(ring[k], RingNext(ring, k), t)], 1, Len(ring))
    IN  Dedupe(Rotate(clipped, Len(clipped) - 1))

\* the piece of crs_polygon between elevations b and t under the stretch i..j:
\* clockwise from its lower left corner
PieceRing(E, i, j, b, t) ==
    ClipTop(<<Point(CrossX(E[i - 1], E[i], b), b)>>
                \o SubSeq(E, i, j)
                \o <<Point(CrossX(E[j], E[j + 1], b), b)>>, t)

\* what the intersection of a layer's rectangle with crs_polygon consists of:
\* the type of the geometry and the rings of its polygons, from left to right
intersection(E, top, bottom) ==
    LET runs == HighRuns(E, bottom)
        n == Cardinality(runs)
        run(i) == CHOOSE r \in runs : Cardinality({q \in runs : q[1] < r[1]}) = i - 1
        lower == Cardinality(FlatAt(E, bottom)) + Cardinality(PeakAt(E, bottom))
    IN  [ type |-> IF n = 0
                   THEN IF lower = 0 THEN "Polygon"
                        ELSE IF lower > 1 THEN "GeometryCollection"
                        ELSE IF FlatAt(E, bottom) # {} THEN "LineString" ELSE "Point"
                   ELSE IF lower > 0 THEN "GeometryCollection"
                   ELSE IF n = 1 THEN "Polygon" ELSE "MultiPolygon",
          geoms |-> IF n = 0 THEN << <<>> >>
                    ELSE [i \in 1..n |-> PieceRing(E, run(i)[1], run(i)[2], bottom, top)] ]

\* list(geom.boundary.coords)[:-1]: the ring as the polygon library hands it
\* out, with or without the vertices on straight edges, in its winding, from
\* its first vertex
BoundaryCoords(ring, lib) ==
    LET noded == IF lib.nodes THEN ring ELSE RemoveCollinear(ring)
        wound == IF lib.ccw THEN Reverse(noded) ELSE noded
    IN  IF Len(wound) = 0 THEN wound ELSE Rotate(wound, lib.start % Len(wound))

----------------------------------------------------------------------------
(* Scenario.to_dgeoflow_model: soils *)

\* settings.SOILPARAMETERS: code, k_hor and k_ver; conductivities in 1/10000 m/day
SOILPARAMETERS ==
    << [code |-> <<"A", "A">>, k_hor |-> 50000, k_ver |-> 50000],
       [code |-> <<"A", "V">>, k_hor |-> 10, k_ver |-> 10],
       [code |-> <<"B", "V">>, k_hor |-> 10, k_ver |-> 10],
       [code |-> <<"C", "K">>, k_hor |-> 10, k_ver |-> 10],
       [code |-> <<"C", "K", "1", "4">>, k_hor |-> 10, k_ver |-> 10],
       [code |-> <<"C", "K", "1", "6">>, k_hor |-> 10, k_ver |-> 10],
       [code |-> <<"C", "K", "1", "8">>, k_hor |-> 10, k_ver |-> 10],
       [code |-> <<"C", "Z">>, k_hor |-> 100, k_ver |-> 100],
       [code |-> <<"D", "K">>, k_hor |-> 10, k_ver |-> 10],
       [code |-> <<"D", "K", "1", "4">>, k_hor |-> 10, k_ver |-> 10],
       [code |-> <<"D", "K", "1", "6">>, k_hor |-> 10, k_ver |-> 10],
       [code |-> <<"D", "K", "1", "8">>, k_hor |-> 10, k_ver |-> 10],
       [code |-> <<"D", "Z">>, k_hor |-> 50000, k_ver |-> 50000],
       [code |-> <<"H", "V">>, k_hor |-> 10, k_ver |-> 10],
       [code |-> <<"K", "l", "a">>, k_hor |-> 100, k_ver |-> 100],
       [code |-> <<"P", "L">>, k_hor |-> 20000, k_ver |-> 20000],
       [code |-> <<"P", "L", "a">>, k_hor |-> 20000, k_ver |-> 20000],
       [code |-> <<"Z", "A">>, k_hor |-> 20000, k_ver |-> 20000],
       [code |-> <<"Z", "A", "a">>, k_hor |-> 20000, k_ver |-> 20000] >>

\* settings.SOILS_WITH_K_ZAND
SOILS_WITH_K_ZAND ==
    { <<"A", "A">>, <<"D", "Z">>, <<"P", "L">>, <<"P", "L", "a">>, <<"Z", "A">>,
      <<"Z", "A", "a">>, <<"C", "Z">> }

\* settings.SLOOT_1A_OFFSET, LIMIT_RIGHT, POLDER_BOUNDARY_WIDTH (m) and
\* DEFAULT_D70 (um)
SLOOT_1A_OFFSET == 40
LIMIT_RIGHT == 100
POLDER_BOUNDARY_WIDTH == 1
DEFAULT_D70 == 100

\* str.find("_"): the index of the first "_", -1 when there is none
FindUnderscore(name) ==
    LET at == {i \in 1..Len(name) : name[i] = "_"}
    IN  IF at = {} THEN -1 ELSE SetMin(at) - 1

\* SoilLayer.short_name: `if self.soil_name.find("_"):` is taken for every
\* index but 0; split("_")[0] is the text before the first "_", the whole name
\* when there is none
short_name(soil_name) ==
    IF FindUnderscore(soil_name) # 0
    THEN IF FindUnderscore(soil_name) = -1 THEN soil_name
         ELSE SubSeq(soil_name, 1, FindUnderscore(soil_name))
    ELSE soil_name

\* a Soil that keeps the conductivity of the table for the sand soils as well
SoilFromTable(params, k_sand, anisotropy_factor) ==
    [code |-> params.code, k_hor |-> params.k_hor,
     k_ver |-> params.k_ver \div anisotropy_factor]

\* the Soil added for one entry of SOILPARAMETERS, and its log line
Soil(params, k_sand, anisotropy_factor) ==
    IF params.code \in SOILS_WITH_K_ZAND
    THEN [code |-> params.code, k_hor |-> k_sand, k_ver |-> k_sand \div anisotropy_factor]
    ELSE [code |-> params.code, k_hor |-> params.k_hor,
          k_ver |-> params.k_ver \div anisotropy_factor]

AddingSoil(soil) == <<"Adding soil", soil.code, soil.k_ver, soil.k_hor>>

----------------------------------------------------------------------------
(* Scenario.to_dgeoflow_model: layers and pipe start *)

\* DGeoFlowModel as far as to_dgeoflow_model fills it: what it added, the
\* arguments of its calls of set_calculation_type and set_pipe_trajectory in
\* their order, and the methods in the order to_dgeoflow_model calls them (the
\* soils at lines 626-645, the layers at 765, the boundary conditions at
\* 778-839, the pipe at 843-844); None is the model that was not built
DGeoFlowModel(soils, layers, boundary_conditions, calculation_type, pipe_trajectory) ==
    [ is_none |-> FALSE, soils |-> soils, layers |-> layers,
      boundary_conditions |-> boundary_conditions,
      calculation_type |-> calculation_type,
      pipe_trajectory |-> pipe_trajectory,
      method_calls |-> [i \in 1..Len(soils) |-> "add_soil"]
                       \o [i \in 1..Len(layers) |-> "add_layer"]
                       \o [i \in 1..Len(boundary_conditions) |-> "add_boundary_condition"]
                       \o [i \in 1..Len(calculation_type) |-> "set_calculation_type"]
                       \o [i \in 1..Len(pipe_trajectory) |-> "set_pipe_trajectory"] ]

None ==
    [ is_none |-> TRUE, soils |-> <<>>, layers |-> <<>>,
      boundary_conditions |-> <<>>, calculation_type |-> <<>>,
      pipe_trajectory |-> <<>>, method_calls |-> <<>> ]

\* the loop over the layers is under way ("run"), has returned (log, None)
\* ("none") or has raised exc ("raise")
Building(layers, pipe_start, log) ==
    [status |-> "run", exc |-> "none", layers |-> layers, pipe_start |-> pipe_start,
     log |-> log]
Stopped(st, status, exc, log) ==
    [status |-> status, exc |-> exc, layers |-> st.layers,
     pipe_start |-> st.pipe_start, log |-> log]

\* m.add_layer(points, soil_code = short_name, label = soil_name)
Layer(pts, soillayer) ==
    [points |-> pts, soil_code |-> short_name(soillayer.soil_name),
     label |-> soillayer.soil_name]

\* scenario 2, the scan of the aquifer polygon from index i (0-based) on: the
\* polygon it leaves, the pipe start it found (<<>> for None), the exception
RECURSIVE AquiferScan(_, _, _)
AquiferScan(pts, i, x) ==
    IF i >= Len(pts)
    THEN [points |-> pts, pipe_start |-> <<>>, exc |-> "IndexError"]
    ELSE LET p1 == pts[i + 1]
             p2 == IF i = Len(pts) - 1 THEN pts[1] ELSE pts[i + 2]
         IN  IF p1.x = x \/ p2.x = x
             THEN [points |-> pts, pipe_start |-> <<>>, exc |-> "none"]
             ELSE IF p1.x < p2.x /\ p1.x < x /\ x < p2.x
             THEN LET z == p1.z + ((x - p1.x) * (p2.z - p1.z)) \div (p2.x - p1.x)
                  IN  [ points |-> SubSeq(pts, 1, i + 1) \o <<Point(x, z)>>
                                       \o SubSeq(pts, i + 2, Len(pts)),
                        pipe_start |-> <<Point(x, z)>>, exc |-> "none" ]
             ELSE AquiferScan(pts, i + 1, x)

\* scenario 1: topline.intersection(ditchline) is a point exactly when the left
\* slope of the ditch passes the top of the aquifer between the limits
SlopeMeetsTop(dtl, dbl, top, left_limit, right_limit) ==
    /\ dtl.z >= top
    /\ left_limit <= CrossX(dtl, dbl, top)
    /\ CrossX(dtl, dbl, top) <= right_limit

\* the body of `for geom in geoms` for the aquifer layer
AddAquiferGeom(st, soillayer, pts, dbl, dtl, left_limit, right_limit) ==
    IF soillayer.top > dbl.z
    THEN IF Len(pts) = 0 THEN Stopped(st, "raise", "IndexError", st.log)
         ELSE IF Len(dtl) = 0 THEN Stopped(st, "raise", "AttributeError", st.log)
         ELSE IF SlopeMeetsTop(dtl[1], dbl, soillayer.top, left_limit, right_limit)
         THEN Building(Append(st.layers, Layer(pts, soillayer)),
                       <<Point(CrossX(dtl[1], dbl, soillayer.top), soillayer.top)>>,
                       st.log)
         ELSE Stopped(st, "none", "none",
                      Append(st.log, <<"Error trying to find an intersection">>))
    ELSE LET scan == AquiferScan(pts, 0, dbl.x)
         IN  IF scan.exc # "none" THEN Stopped(st, "raise", scan.exc, st.log)
             ELSE Building(Append(st.layers, Layer(scan.points, soillayer)),
                           IF scan.pipe_start = <<>> THEN st.pipe_start
                           ELSE scan.pipe_start,
                           st.log)

\* the body of `for geom in geoms`; the boundary of an empty polygon has
\* coords (none) or raises NotImplementedError, as the polygon library has it
AddGeom(st, soillayer, is_aquifer, ring, lib, dbl, dtl, left_limit, right_limit) ==
    IF Len(ring) = 0 /\ ~lib.empty_coords
    THEN Stopped(st, "raise", "NotImplementedError", st.log)
    ELSE IF is_aquifer
    THEN AddAquiferGeom(st, soillayer, BoundaryCoords(ring, lib), dbl, dtl,
                        left_limit, right_limit)
    ELSE Building(Append(st.layers, Layer(BoundaryCoords(ring, lib), soillayer)),
                  st.pipe_start, st.log)

\* `for geom in geoms` from the g-th polygon on
RECURSIVE AddGeoms(_, _, _, _, _, _, _, _, _, _)
AddGeoms(st, soillayer, is_aquifer, geoms, g, lib, dbl, dtl, left_limit, right_limit) ==
    IF st.status # "run" \/ g > Len(geoms) THEN st
    ELSE AddGeoms(AddGeom(st, soillayer, is_aquifer, geoms[g], lib, dbl, dtl,
                          left_limit, right_limit),
                  soillayer, is_aquifer, geoms, g + 1, lib, dbl, dtl, left_limit,
                  right_limit)

\* `for spg in soil_polygons` from the k-th layer on
RECURSIVE AddLayers(_, _, _, _, _, _, _, _, _, _)
AddLayers(st, layers, aq, k, E, lib, dbl, dtl, left_limit, right_limit) ==
    IF st.status # "run" \/ k > Len(layers) THEN st
    ELSE LET newpgs == intersection(E, layers[k].top, layers[k].bottom)
         IN  IF newpgs.type \notin {"Polygon", "MultiPolygon"}
             THEN Stopped(st, "raise", "ValueError", st.log)
             ELSE AddLayers(AddGeoms(st, layers[k],
                                     aq # 0 /\ layers[k] = layers[IF aq = 0 THEN k ELSE aq],
                                     newpgs.geoms, 1, lib, dbl, dtl, left_limit,
                                     right_limit),
                            layers, aq, k + 1, E, lib, dbl, dtl, left_limit,
                            right_limit)

----------------------------------------------------------------------------
(* Scenario.to_dgeoflow_model: boundary conditions and pipe *)

\* heads are kept in tenths of the unit of z, so that 0.3 * d is an integer
Tenths(z) == 10 * z

BoundaryCondition(pts, head_level, label) ==
    [points |-> pts, head_level |-> head_level, label |-> label]

\* helpers.calc_regression(x_data, y_data, x_interp)[1]: the value of the
\* logarithmic fit at x_interp, kept as the fit it is the value of
calc_regression(x_data, y_data, x_interp) ==
    [x_data |-> x_data, y_data |-> y_data, x_interp |-> x_interp]

\* the head on the ditch bottom without `we willen geen negatieve waarden`
PolderHeadUnclamped(polderpeil, ditch_bottom_left, aquifer) ==
    LET d == ditch_bottom_left.z - aquifer.top
    IN  [ head_level |-> Tenths(polderpeil) + 3 * d,
          log |-> IF d > 0 THEN <<"0.3d regel toegepast">>
                  ELSE <<"WARNING Geen 0.3d regel toegepast">> ]

\* STIJGHOOGTE SLOOTBODEM: phi_polder (in tenths) and the line the log gets
PolderHead(polderpeil, ditch_bottom_left, aquifer) ==
    LET d_03 == Max(ditch_bottom_left.z - aquifer.top, 0)
        phi_level_03d == Tenths(polderpeil) + 3 * d_03
    IN  IF d_03 > 0
        THEN [head_level |-> phi_level_03d, log |-> <<"0.3d regel toegepast">>]
        ELSE [ head_level |-> Tenths(polderpeil),
               log |-> <<"WARNING Geen 0.3d regel toegepast">> ]

\* a pipe whose points lie at the elevation of the pipe start
PipeTrajectoryAtPipeStart(pipe_start, aquifer, left_limit) ==
    [ Label |-> "Pipe", D70 |-> DEFAULT_D70, ErosionDirection |-> "RIGHT_TO_LEFT",
      Points |-> <<Point(pipe_start.x, pipe_start.z), Point(left_limit, pipe_start.z)>> ]

\* PipeTrajectory(...) as to_dgeoflow_model makes it: along the top of the
\* aquifer from the pipe start to the left limit (D70 in um)
PipeTrajectory(pipe_start, aquifer, left_limit) ==
    [ Label |-> "Pipe", D70 |-> DEFAULT_D70, ErosionDirection |-> "RIGHT_TO_LEFT",
      Points |-> <<Point(pipe_start.x, aquifer.top), Point(left_limit, aquifer.top)>> ]

\* the boundary conditions with the surface boundary whatever the flag says
BoundaryConditionsWithSurface(phi_ws, phi_hinter, polder, surface, use_surface_boundary) ==
    <<phi_ws, phi_hinter, polder, surface>>

\* the boundary conditions in the order of their add_boundary_condition calls
BoundaryConditions(phi_ws, phi_hinter, polder, surface, use_surface_boundary) ==
    <<phi_ws, phi_hinter, polder>> \o (IF use_surface_boundary THEN <<surface>> ELSE <<>>)

\* what to_dgeoflow_model returns
LogAndModel(log, model) == Returned([log |-> log, model |-> model])

\* the part of to_dgeoflow_model after the loop over the layers
Finish(st, pts, layers, aq_nr, scn, soils, dbl, dbr, dtr, left_limit, right_limit, sealevel_rise, use_surface_boundary) ==
    LET zs == get_sth_intredepunt_zs(layers, aq_nr)
        left == CrosssectionLeft(pts).value
        right == CrosssectionRight(pts).value
        aquifer == layers[SoilProfileAquifer(layers, aq_nr)]
        sth_intredepunt == Tenths(scn.sth_intredepunt + sealevel_rise)
        dx == scn.x_uittredepunt - scn.x_intredepunt
        phi_ws == BoundaryCondition([i \in 1..Len(zs.zs) |-> Point(left, zs.zs[i])],
                                    sth_intredepunt, "phi_ws")
        phi_hinter ==
            BoundaryCondition(
                [i \in 1..Len(zs.zs) |-> Point(right, Reverse(zs.zs)[i])],
                calc_regression(<<1, Tenths(dx)>>,
                                <<sth_intredepunt, Tenths(scn.sth_uittredepunt)>>,
                                Tenths(right - scn.x_intredepunt)),
                "phi_hinter")
        phi_polder == PolderHead(scn.gehanteerd_polderpeil, dbl, aquifer)
        polder == BoundaryCondition(<<dbl, dbr>>, phi_polder.head_level, "polder")
        surface == BoundaryCondition(<<Point(dtr.x, dtr.z), Point(right_limit, dtr.z)>>,
                                     Tenths(dtr.z), "water surface")
        log == Append(st.log, phi_polder.log)
        pipe == PipeTrajectory(st.pipe_start[1], aquifer, left_limit)
    IN  IF zs.is_none THEN Raised("TypeError")
        ELSE IF st.pipe_start = <<>> THEN Raised("AttributeError")
        ELSE LogAndModel(log,
                 DGeoFlowModel(soils, st.layers,
                               BoundaryConditions(phi_ws, phi_hinter, polder, surface,
                                                  use_surface_boundary),
                               <<"PIPE_LENGTH">>, <<pipe>>))

\* the part of to_dgeoflow_model after the input check: soils, truncation,
\* layers, boundary conditions, pipe
Build(pts, layers, aq_nr, scn, lib, k_sand, anisotropy_factor, sealevel_rise, use_surface_boundary, dbl, dbr, dtr, dtl) ==
    LET soils == [i \in 1..Len(SOILPARAMETERS) |->
                     Soil(SOILPARAMETERS[i], k_sand, anisotropy_factor)]
        log == [i \in 1..Len(soils) |-> AddingSoil(soils[i])]
        left_limit == scn.x_intredepunt
        right_limit == dtr.x + SLOOT_1A_OFFSET
        cut_left == limit_left(pts, left_limit)
        cut_right == limit_right(cut_left.points, right_limit)
        bottom == SoilProfileBottom(layers)
        st == AddLayers(Building(<<>>, <<>>, log), layers,
                        SoilProfileAquifer(layers, aq_nr), 1,
                        CrsChain(cut_right.points, left_limit, right_limit, bottom.value),
                        lib, dbl, dtl, left_limit, right_limit)
    IN  IF cut_left.exc # "none"
        THEN [points |-> cut_left.points, ret |-> Raised(cut_left.exc)]
        ELSE IF cut_right.exc # "none"
        THEN [points |-> cut_right.points, ret |-> Raised(cut_right.exc)]
        ELSE IF bottom.exc # "none"
        THEN [points |-> cut_right.points, ret |-> bottom]
        ELSE IF st.status = "raise"
        THEN [points |-> cut_right.points, ret |-> Raised(st.exc)]
        ELSE IF st.status = "none"
        THEN [points |-> cut_right.points, ret |-> LogAndModel(st.log, None)]
        ELSE [points |-> cut_right.points,
              ret |-> Finish(st, cut_right.points, layers, aq_nr, scn, soils, dbl,
                             dbr, dtr, left_limit, right_limit, sealevel_rise,
                             use_surface_boundary)]

\* a plausible slip: the ditch check with > where the code has >=
InvalidDitchStrict(dbl, dbr, dtr) == dbl.x > dbr.x \/ dbr.x > dtr.x

\* the input check: the ditch is invalid when its bottom has no width or its
\* right slope runs backwards
InvalidDitch(dbl, dbr, dtr) == dbl.x >= dbr.x \/ dbr.x >= dtr.x

\* a plausible slip: the input check after the cross-section was cut at its
\* left end, where limit_left names the first point MV_BUITEN
InvalidDitchReturnAfterCut(pts, dbl, dbr, dtr) ==
    [ points |-> limit_left(pts, CrosssectionLeft(pts).value).points,
      ret |-> LogAndModel(<< <<"Invalid ditch coordinates", dbl.x, dbr.x, dtr.x>> >>,
                          None) ]

\* `return log, None` of the input check: the log holds the one line about the
\* ditch, no model was made and the cross-section is as it was found
InvalidDitchReturn(pts, dbl, dbr, dtr) ==
    [ points |-> pts,
      ret |-> LogAndModel(<< <<"Invalid ditch coordinates", dbl.x, dbr.x, dtr.x>> >>,
                          None) ]

\* Scenario.to_dgeoflow_model: the cross-section it leaves and what it returns
\* or raises
to_dgeoflow_model(pts, layers, aq_nr, scn, lib, k_sand, anisotropy_factor, sealevel_rise, use_surface_boundary) ==
    LET at(point_type) == get_point_by_point_type(pts, point_type)
        ditch_bottom_left == pts[at("SLOOT_1D")]
        ditch_bottom_right == pts[at("SLOOT_1C")]
        ditch_top_right == pts[at("SLOOT_1A")]
        ditch_top_left == IF at("SLOOT_1B") = 0 THEN <<>> ELSE <<pts[at("SLOOT_1B")]>>
    IN  IF at("SLOOT_1D") = 0 \/ at("SLOOT_1C") = 0 \/ at("SLOOT_1A") = 0
        THEN [points |-> pts, ret |-> Raised("AttributeError")]
        ELSE IF InvalidDitch(ditch_bottom_left, ditch_bottom_right, ditch_top_right)
        THEN InvalidDitchReturn(pts, ditch_bottom_left, ditch_bottom_right,
                                ditch_top_right)
        ELSE Build(pts, layers, aq_nr, scn, lib, k_sand, anisotropy_factor,
                   sealevel_rise, use_surface_boundary,
                   ditch_bottom_left, ditch_bottom_right, ditch_top_right,
                   ditch_top_left)

----------------------------------------------------------------------------
(* Scenarios: Scenario.from_dataframe_row on surveyed rows *)

\* The surveyed profiles, drawn as Scenario sees them after mirror(): river
\* on the left, polder on the right.  x is in m, z in units of half a metre.
\* Slopes fall one unit of z per 10 m and every cut is a multiple of 10 m, so
\* that the interpolations are exact.  The outer ground level is at 2, the
\* crest at 4, the polder at 2 and the ditch bottom at 0; the ditch top on the
\* dike side lies at x = s, the ditch bottom is w wide, the polder side of the
\* ditch rises over v m, and the survey ends at x = 160.
Drawing(s, w, v) ==
    << CrosssectionPoint(s - 40, 2, "MV_BUITEN"),
       CrosssectionPoint(s - 20, 4, "KRUIN_1"),
       CrosssectionPoint(s, 2, "SLOOT_1B"),
       CrosssectionPoint(s + 20, 0, "SLOOT_1D"),
       CrosssectionPoint(s + 20 + w, 0, "SLOOT_1C"),
       CrosssectionPoint(s + 20 + w + v, 2, "SLOOT_1A"),
       CrosssectionPoint(160, 2, "MV_BINNEN") >>

\* where the surveyed profiles differ: s, w, v and the distance e of the entry
\* point to the left of the ditch top (40: at the outer ground level point,
\* 30: on the outer slope, 100: left of the survey, 0: at the ditch top)
RowShapes ==
    ({0, 40, 60} \X {10} \X {20} \X {30, 40, 100})
        \cup {<<40, 0, 20, 40>>, <<40, 10, 0, 40>>, <<40, 10, 20, 0>>, <<90, 10, 20, 40>>}

\* the rows of the survey: the points in the order of PROFIEL_IDS (polder
\* first, x positive towards the river), the entry point, the exit point at the
\* ditch top
Rows ==
    { [ points |-> mirror(Drawing(r[1], r[2], r[3])),
        intredepunt_for |-> -1 * (r[1] - r[4]),
        uittredepunt_for |-> -1 * r[1],
        stijghoogte_intredepunt_mnap |-> 5,
        stijghoogte_uittredepunt_mnap |-> 2,
        gehanteerd_polderpeil_mnap |-> 1 ] : r \in RowShapes }

\* Scenario.from_dataframe_row: the cross-section is mirrored, cut at the
\* entry point and at LIMIT_RIGHT
from_dataframe_row(row) ==
    LET x_in == -1 * row.intredepunt_for
        cut_left == limit_left(mirror(row.points), x_in)
        cut_right == limit_right(cut_left.points, LIMIT_RIGHT)
    IN  [ exc |-> IF cut_left.exc # "none" THEN cut_left.exc ELSE cut_right.exc,
          points |-> cut_right.points,
          scenario |-> Scenario(x_in, -1 * row.uittredepunt_for,
                                row.stijghoogte_intredepunt_mnap,
                                row.stijghoogte_uittredepunt_mnap,
                                row.gehanteerd_polderpeil_mnap) ]

\* the soil profiles of the scenarios: a clay cover from 4 down to the aquifer
\* (or no cover), the aquifer from its top down to -4 (or to -2, on a clay
\* base); one profile starts above the crest, with a layer from 6 down to 5
SoilProfileOf(cover, top, base) ==
    (IF cover THEN <<SoilLayer(<<"C", "K">>, 4, top, 0, 1)>> ELSE <<>>)
        \o <<SoilLayer(<<"Z", "A", "_", "A", "q">>, top, IF base THEN -2 ELSE -4, 1, 1)>>
        \o (IF base THEN <<SoilLayer(<<"C", "K">>, -2, -4, 0, 1)>> ELSE <<>>)

ScenarioProfiles ==
    { SoilProfileOf(cover, top, FALSE) : cover \in BOOLEAN, top \in {-1, 0, 1, 3} }
        \cup {SoilProfileOf(TRUE, 1, TRUE)}
        \cup {<<SoilLayer(<<"C", "K">>, 6, 5, 0, 1), SoilLayer(<<"D", "K">>, 5, -1, 0, 1),
                SoilLayer(<<"Z", "A", "_", "A", "q">>, -1, -4, 1, 1)>>}

\* the conventions the polygon library can follow
ShapelyConventions ==
    [ccw : BOOLEAN, start : {0, 1}, nodes : BOOLEAN, empty_coords : BOOLEAN]

\* the inputs of to_dgeoflow_model: k_sand (1/10000 m/day), anisotropy_factor,
\* use_surface_boundary and sealevel_rise
BuildInputs == {<<60000, 2, TRUE, 0>>, <<130000, 10, FALSE, 1>>, <<60000, 10, TRUE, 2>>}

InitBuild ==
    /\ \E row \in Rows :
            /\ from_dataframe_row(row).exc = "none"
            /\ points = from_dataframe_row(row).points
            /\ scenario = from_dataframe_row(row).scenario
    /\ soillayers \in ScenarioProfiles
    /\ aquifer_number \in IF soillayers = SoilProfileOf(TRUE, 1, TRUE) THEN {1, 2} ELSE {1}
    /\ shapely \in ShapelyConventions
    /\ calls = <<>>
    /\ ret = NoValue
    /\ inputdata = NoInputData
    /\ loop = NoLoop

ToDgeoflowModel(k_sand, anisotropy_factor, use_surface_boundary, sealevel_rise) ==
    LET built == to_dgeoflow_model(points, soillayers, aquifer_number, scenario,
                                   shapely, k_sand, anisotropy_factor, sealevel_rise,
                                   use_surface_boundary)
    IN  /\ CanCall
        /\ points' = built.points
        /\ ret' = built.ret
        /\ calls' = Remember(Call("to_dgeoflow_model",
                                  <<k_sand, anisotropy_factor, use_surface_boundary,
                                    sealevel_rise>>,
                                  built.ret.exc))
        /\ UNCHANGED <<soillayers, aquifer_number, scenario, shapely, inputdata, loop>>

NextBuild ==
    \E input \in BuildInputs : ToDgeoflowModel(input[1], input[2], input[3], input[4])

SpecBuild == InitBuild /\ [][NextBuild]_vars

----------------------------------------------------------------------------
(* Claims about Scenario.to_dgeoflow_model, checked under SpecBuild *)

AfterBuild == Len(calls) >= 1 /\ Last.op = "to_dgeoflow_model"

\* the cross-section the last call found
Found == Last.before.points

Has(pts, point_type) == \E i \in 1..Len(pts) : pts[i].point_type = point_type
PointOf(pts, point_type) ==
    pts[CHOOSE i \in 1..Len(pts) : pts[i].point_type = point_type]

\* the last call returned (log, None)
ReturnedNone == ret.exc = "none" /\ ret.value.model.is_none

\* the last call returned (log, model) with a model
ReturnedModel == ret.exc = "none" /\ ~ret.value.model.is_none

\* C7: to_dgeoflow_model on a scenario whose cross-section lacks any of the
\* four ditch landmarks SLOOT_1D, SLOOT_1C, SLOOT_1A, SLOOT_1B returns
\* (log, None) and raises no exception.
C7_MissingLandmark ==
    (/\ AfterBuild
     /\ \E t \in {"SLOOT_1D", "SLOOT_1C", "SLOOT_1A", "SLOOT_1B"} : ~Has(Found, t)) =>
        ReturnedNone

\* the ditch the last call found has its three points, but no width at the
\* bottom or no run on its polder side
DegenerateDitch ==
    /\ Has(Found, "SLOOT_1D") /\ Has(Found, "SLOOT_1C") /\ Has(Found, "SLOOT_1A")
    /\ \/ PointOf(Found, "SLOOT_1D").x >= PointOf(Found, "SLOOT_1C").x
       \/ PointOf(Found, "SLOOT_1C").x >= PointOf(Found, "SLOOT_1A").x

\* C8: to_dgeoflow_model on a scenario with
\* ditch_bottom_left.x >= ditch_bottom_right.x or
\* ditch_bottom_right.x >= ditch_top_right.x returns (log, None), where log has
\* an entry about the invalid ditch coordinates, and raises no exception.
C8_InvalidDitch ==
    (AfterBuild /\ DegenerateDitch) =>
        /\ ReturnedNone
        /\ \E i \in 1..Len(ret.value.log) :
                ret.value.log[i][1] = "Invalid ditch coordinates"

\* C8 witness: a build on a ditch whose bottom has no width returned (log, None)
C8_Witness ==
    /\ AfterBuild
    /\ DegenerateDitch
    /\ PointOf(Found, "SLOOT_1D").x = PointOf(Found, "SLOOT_1C").x
    /\ ReturnedNone
    /\ Len(ret.value.log) = 1

\* the scenario the last call found is well formed: the four ditch landmarks,
\* ditch_bottom_left.x < ditch_bottom_right.x < ditch_top_right.x, an aquifer
WellFormed ==
    /\ \A t \in {"SLOOT_1D", "SLOOT_1C", "SLOOT_1A", "SLOOT_1B"} : Has(Found, t)
    /\ PointOf(Found, "SLOOT_1D").x < PointOf(Found, "SLOOT_1C").x
    /\ PointOf(Found, "SLOOT_1C").x < PointOf(Found, "SLOOT_1A").x
    /\ \E i \in 1..Len(soillayers) : soillayers[i].is_aquifer = aquifer_number

\* the top of the aquifer of the profile
AquiferTop ==
    soillayers[CHOOSE i \in 1..Len(soillayers) :
                 /\ soillayers[i].is_aquifer = aquifer_number
                 /\ \A j \in 1..(i - 1) : soillayers[j].is_aquifer # aquifer_number].top

\* C9: to_dgeoflow_model on every well-formed scenario never raises and
\* returns a model that is not None together with a non-empty log, with the
\* top of the aquifer above the ditch bottom and with it below the ditch bottom.
C9_WellFormedBuilds ==
    (/\ AfterBuild
     /\ WellFormed
     /\ AquiferTop # PointOf(Found, "SLOOT_1D").z) =>
        (ReturnedModel /\ Len(ret.value.log) > 0)

\* the last call came as far as the loop over the layers: it found the ditch,
\* cut the cross-section and found the bottom of the profile
ReachedLayers ==
    /\ AfterBuild
    /\ Has(Found, "SLOOT_1D") /\ Has(Found, "SLOOT_1C") /\ Has(Found, "SLOOT_1A")
    /\ ~DegenerateDitch
    /\ Len(points) > 0
    /\ Len(soillayers) > 0

\* the shapes the intersections of the layers of the last call took
Shapes ==
    LET E == CrsChain(points, scenario.x_intredepunt,
                      PointOf(Found, "SLOOT_1A").x + SLOOT_1A_OFFSET,
                      soillayers[Len(soillayers)].bottom)
    IN  [k \in 1..Len(soillayers) |->
            LET top == soillayers[k].top
                bottom == soillayers[k].bottom
                high == {i \in 2..(Len(E) - 1) : E[i].z > bottom}
                pieces == {i \in high : E[i - 1].z <= bottom}
                lines == {i \in 2..(Len(E) - 2) :
                            E[i].z = bottom /\ E[i + 1].z = bottom /\ E[i].x # E[i + 1].x}
                dots == {i \in 2..(Len(E) - 1) :
                            E[i].z = bottom /\ E[i - 1].z < bottom /\ E[i + 1].z < bottom}
            IN  [ polygons |-> Cardinality(pieces),
                  others |-> Cardinality(lines) + Cardinality(dots) ]]

\* the number of polygons in the shapes of the layers; a shape without any
\* part is one empty polygon
RECURSIVE Polygons(_, _)
Polygons(shapes, k) ==
    IF k > Len(shapes) THEN 0
    ELSE Max(shapes[k].polygons, 1) + Polygons(shapes, k + 1)

\* C10: for every shape the intersection of a layer rectangle with the
\* cross-section polygon can take, to_dgeoflow_model does not raise: single
\* polygons, multi-polygons and mixed collections yield one layer per polygon
\* (the other parts of a collection are discarded), and any other shape makes
\* the build return (log, None).
C10_EveryShapeHandled ==
    ReachedLayers =>
        IF \E k \in 1..Len(Shapes) : Shapes[k].polygons = 0 /\ Shapes[k].others > 0
        THEN ReturnedNone
        ELSE /\ ret.exc # "ValueError"
             /\ ReturnedModel =>
                    Len(ret.value.model.layers) = Polygons(Shapes, 1)

\* the boundary condition of the returned model with the label
BoundaryLabelled(label) ==
    LET bcs == ret.value.model.boundary_conditions
    IN  bcs[CHOOSE i \in 1..Len(bcs) : bcs[i].label = label]

\* the ditch bottom and the aquifer the last call found
DitchBottomLeft == PointOf(Found, "SLOOT_1D")
DitchBottomRight == PointOf(Found, "SLOOT_1C")

\* C11: when the aquifer top is at or above the ditch bottom, the polyline of
\* the polder boundary condition starts at x = ditch_bottom_left.x and ends at
\* x = min(ditch_bottom_right.x, ditch_bottom_left.x + POLDER_BOUNDARY_WIDTH).
C11_PolderBoundaryWindow ==
    (AfterBuild /\ ReturnedModel /\ AquiferTop >= DitchBottomLeft.z) =>
        LET polyline == BoundaryLabelled("polder").points
        IN  /\ polyline[1].x = DitchBottomLeft.x
            /\ polyline[Len(polyline)].x =
                   Min(DitchBottomRight.x, DitchBottomLeft.x + POLDER_BOUNDARY_WIDTH)

DitchTopLeft == PointOf(Found, "SLOOT_1B")

\* the last call on a well-formed scenario came as far as the pipe: it returned
\* a model or failed on a pipe start that is None
ReachedPipe ==
    /\ AfterBuild
    /\ WellFormed
    /\ \/ ReturnedModel
       \/ ret.exc = "AttributeError"

\* C16: whenever the aquifer top is at or above the ditch bottom (equality
\* included) the pipe start is the intersection of the horizontal line
\* z = aquifer.top with the segment from ditch_top_left to ditch_bottom_left.
C16_SlopeIntersection ==
    (ReachedPipe /\ AquiferTop >= DitchBottomLeft.z) =>
        /\ ReturnedModel
        /\ ret.value.model.pipe_trajectory[1].Points[1] =
               Point(CrossX(DitchTopLeft, DitchBottomLeft, AquiferTop), AquiferTop)

\* the layers of the returned model that were made of the aquifer
AquiferLayers ==
    LET layers == ret.value.model.layers
        aquifer == soillayers[SoilProfileAquifer(soillayers, aquifer_number)]
    IN  {k \in 1..Len(layers) : layers[k].label = aquifer.soil_name}

\* C17: whenever the aquifer top is below the ditch bottom the pipe start is
\* the point (ditch_bottom_left.x, aquifer.top), whatever the starting vertex
\* and the winding of the aquifer polygon and whether or not it has a vertex at
\* x = ditch_bottom_left.x; the scan never indexes past the vertex list and a
\* vertex it inserts lies on the top edge of the aquifer.
C17_PipeStartBelowDitch ==
    (/\ AfterBuild
     /\ WellFormed
     /\ AquiferTop < DitchBottomLeft.z
     /\ \/ ReturnedModel
        \/ ret.exc \in {"AttributeError", "IndexError"}) =>
        /\ ReturnedModel
        /\ ret.value.model.pipe_trajectory[1].Points[1] =
               Point(DitchBottomLeft.x, AquiferTop)
        /\ \A k \in AquiferLayers :
             \A i \in 1..Len(ret.value.model.layers[k].points) :
                LET p == ret.value.model.layers[k].points[i]
                IN  p.x = DitchBottomLeft.x => p.z = AquiferTop

\* x of the pipe start the build defines: on the left slope of the ditch at the
\* top of the aquifer, or under the left end of the ditch bottom
PipeStartX ==
    IF AquiferTop > DitchBottomLeft.z
    THEN CrossX(DitchTopLeft, DitchBottomLeft, AquiferTop)
    ELSE DitchBottomLeft.x

\* C18: every successful build sets exactly one pipe trajectory with exactly
\* two points, the first at (pipe_start.x, aquifer.top) and the second at
\* (left_limit, aquifer.top) with left_limit = x_intredepunt, erosion direction
\* right-to-left, and sets the calculation type to pipe-length exactly once.
C18_PipeTrajectory ==
    (AfterBuild /\ ReturnedModel) =>
        LET m == ret.value.model
        IN  /\ m.calculation_type = <<"PIPE_LENGTH">>
            /\ Len(m.pipe_trajectory) = 1
            /\ m.pipe_trajectory[1].ErosionDirection = "RIGHT_TO_LEFT"
            /\ m.pipe_trajectory[1].Points =
                   <<Point(PipeStartX, AquiferTop),
                     Point(scenario.x_intredepunt, AquiferTop)>>

\* C18 witness: a build set the pipe from a pipe start that the scan put on
\* the bottom of the aquifer
C18_Witness ==
    /\ AfterBuild
    /\ ReturnedModel
    /\ AquiferTop < DitchBottomLeft.z
    /\ shapely.ccw
    /\ Len(ret.value.model.pipe_trajectory) = 1
    /\ ret.value.model.pipe_trajectory[1].Points[1].x = DitchBottomLeft.x

\* the lines of the returned log about the 0.3d rule
RuleLines ==
    {i \in 1..Len(ret.value.log) :
        ret.value.log[i][1] \in {"0.3d regel toegepast",
                                 "WARNING Geen 0.3d regel toegepast"}}

\* C19: the head of the polder boundary condition equals
\* gehanteerd_polderpeil + 0.3 * max(ditch_bottom_left.z - aquifer.top, 0): it
\* is raised above the applied polder level exactly when the ditch bottom lies
\* strictly above the aquifer top; each successful build appends exactly one of
\* the two log lines about the rule and it matches the branch taken.
C19_PolderHead ==
    (AfterBuild /\ ReturnedModel) =>
        LET head_level == BoundaryLabelled("polder").head_level
            polderpeil == Tenths(scenario.gehanteerd_polderpeil)
            raised == DitchBottomLeft.z > AquiferTop
        IN  /\ head_level = polderpeil + 3 * Max(DitchBottomLeft.z - AquiferTop, 0)
            /\ (head_level > polderpeil) <=> raised
            /\ ~raised => head_level = polderpeil
            /\ Cardinality(RuleLines) = 1
            /\ \A i \in RuleLines :
                 ret.value.log[i][1] = (IF raised THEN "0.3d regel toegepast"
                                        ELSE "WARNING Geen 0.3d regel toegepast")

\* C19 witness: a build with the aquifer top above the ditch bottom left the
\* head at the applied polder level and logged the warning
C19_Witness ==
    /\ AfterBuild
    /\ ReturnedModel
    /\ AquiferTop > DitchBottomLeft.z
    /\ BoundaryLabelled("polder").head_level = Tenths(scenario.gehanteerd_polderpeil)
    /\ ret.value.log[Len(ret.value.log)][1] = "WARNING Geen 0.3d regel toegepast"

\* C19 witness of the other branch: the rule raised the head
C19_WitnessApplied ==
    /\ AfterBuild
    /\ ReturnedModel
    /\ AquiferTop < DitchBottomLeft.z
    /\ BoundaryLabelled("polder").head_level > Tenths(scenario.gehanteerd_polderpeil)
    /\ ret.value.log[Len(ret.value.log)][1] = "0.3d regel toegepast"

\* C20: the boundary condition 'phi_ws' of every successful build is a vertical
\* polyline with every point at x = left_limit = x_intredepunt, its z values
\* running strictly upward from the bottom of the soil profile to the top of
\* the aquifer, and its head is sth_intredepunt + sealevel_rise.
C20_EntryHead ==
    (AfterBuild /\ ReturnedModel) =>
        LET phi_ws == BoundaryLabelled("phi_ws")
            n == Len(phi_ws.points)
        IN  /\ \A i \in 1..n : phi_ws.points[i].x = scenario.x_intredepunt
            /\ \A i \in 1..(n - 1) : phi_ws.points[i].z < phi_ws.points[i + 1].z
            /\ phi_ws.points[1].z = soillayers[Len(soillayers)].bottom
            /\ phi_ws.points[n].z = AquiferTop
            /\ phi_ws.head_level = Tenths(scenario.sth_intredepunt + Last.arg[4])

DitchTopRight == PointOf(Found, "SLOOT_1A")

\* C21: the boundary condition 'phi_hinter' of every successful build is a
\* vertical polyline with every point at the right edge of the model,
\* x = right_limit = ditch_top_right.x + SLOOT_1A_OFFSET, also when the survey
\* was cut at LIMIT_RIGHT when the scenario was made; its z values are those of
\* 'phi_ws' in reverse order.
C21_RearHead ==
    (AfterBuild /\ ReturnedModel) =>
        LET phi_hinter == BoundaryLabelled("phi_hinter")
            phi_ws == BoundaryLabelled("phi_ws")
            n == Len(phi_hinter.points)
        IN  /\ \A i \in 1..n :
                 phi_hinter.points[i].x = DitchTopRight.x + SLOOT_1A_OFFSET
            /\ n = Len(phi_ws.points)
            /\ \A i \in 1..n : phi_hinter.points[i].z = phi_ws.points[n + 1 - i].z

\* the positions of the calls of a method on the returned model
CallsOf(method) ==
    {i \in 1..Len(ret.value.model.method_calls) :
        ret.value.model.method_calls[i] = method}

\* C22: every successful build adds its boundary conditions in the order
\* phi_ws, phi_hinter, polder and then 'water surface' if and only if
\* use_surface_boundary is true (4 with the flag, 3 without), all after every
\* soil and layer and before the pipe trajectory; the surface boundary runs
\* from (ditch_top_right.x, ditch_top_right.z) to (right_limit,
\* ditch_top_right.z) with head ditch_top_right.z.
C22_BoundaryConditionOrder ==
    (AfterBuild /\ ReturnedModel) =>
        LET bcs == ret.value.model.boundary_conditions
            use_surface_boundary == Last.arg[3]
        IN  /\ [i \in 1..Len(bcs) |-> bcs[i].label] =
                   <<"phi_ws", "phi_hinter", "polder">>
                       \o (IF use_surface_boundary THEN <<"water surface">> ELSE <<>>)
            /\ Len(bcs) = IF use_surface_boundary THEN 4 ELSE 3
            /\ Cardinality(CallsOf("add_boundary_condition")) = Len(bcs)
            /\ \A b \in CallsOf("add_boundary_condition") :
                 /\ \A a \in CallsOf("add_soil") \cup CallsOf("add_layer") : a < b
                 /\ \A c \in CallsOf("set_pipe_trajectory") : b < c
            /\ use_surface_boundary =>
                 /\ bcs[4].points =
                        <<Point(DitchTopRight.x, DitchTopRight.z),
                          Point(DitchTopRight.x + SLOOT_1A_OFFSET, DitchTopRight.z)>>
                 /\ bcs[4].head_level = Tenths(DitchTopRight.z)

\* C22 witness: a build without the surface boundary added three boundary
\* conditions between its layers and its pipe
C22_Witness ==
    /\ AfterBuild
    /\ ReturnedModel
    /\ ~Last.arg[3]
    /\ Len(ret.value.model.boundary_conditions) = 3
    /\ CallsOf("add_layer") # {}
    /\ CallsOf("set_pipe_trajectory") # {}

\* C22 witness of the other case: four boundary conditions with the flag
C22_WitnessSurface ==
    /\ AfterBuild
    /\ ReturnedModel
    /\ Last.arg[3]
    /\ Len(ret.value.model.boundary_conditions) = 4
    /\ ret.value.model.boundary_conditions[4].label = "water surface"

\* the last call passed the ditch checks and returned
PassedDitchChecks ==
    /\ AfterBuild
    /\ Has(Found, "SLOOT_1D") /\ Has(Found, "SLOOT_1C") /\ Has(Found, "SLOOT_1A")
    /\ ~DegenerateDitch
    /\ ret.exc = "none"

\* the lines of the returned log about the soil with the code
SoilLines(code) ==
    {i \in 1..Len(ret.value.log) :
        /\ ret.value.log[i][1] = "Adding soil"
        /\ ret.value.log[i][2] = code}

\* C23: on every build that passes the ditch checks each soil code of
\* SOILPARAMETERS is added exactly once, before any layer is added; a soil of
\* SOILS_WITH_K_ZAND gets the horizontal conductivity k_sand and every other
\* soil its k_hor of the table; the vertical conductivity of every soil added
\* is its horizontal conductivity divided by anisotropy_factor.
C23_Soils ==
    PassedDitchChecks =>
        LET k_sand == Last.arg[1]
            anisotropy_factor == Last.arg[2]
            soils == ret.value.model.soils
        IN  /\ \A i \in 1..Len(SOILPARAMETERS) :
                 Cardinality(SoilLines(SOILPARAMETERS[i].code)) = 1
            /\ ReturnedModel =>
                 /\ Len(soils) = Len(SOILPARAMETERS)
                 /\ \A i \in 1..Len(soils) :
                      /\ soils[i].code = SOILPARAMETERS[i].code
                      /\ soils[i].k_hor =
                             (IF soils[i].code \in SOILS_WITH_K_ZAND THEN k_sand
                              ELSE SOILPARAMETERS[i].k_hor)
                      /\ soils[i].k_ver * anisotropy_factor = soils[i].k_hor
                 /\ \A a \in CallsOf("add_soil") : \A b \in CallsOf("add_layer") : a < b

\* C23 witness: a build with k_sand = 13 m/day and anisotropy factor 10 added
\* the sand ZA and the clay CK
C23_Witness ==
    /\ PassedDitchChecks
    /\ ReturnedModel
    /\ Last.arg[1] = 130000
    /\ Last.arg[2] = 10
    /\ \E i \in 1..Len(ret.value.model.soils) :
         /\ ret.value.model.soils[i].code = <<"Z", "A">>
         /\ ret.value.model.soils[i].k_ver = 13000
    /\ \E i \in 1..Len(ret.value.model.soils) :
         /\ ret.value.model.soils[i].code = <<"C", "K">>
         /\ ret.value.model.soils[i].k_ver = 1
    /\ CallsOf("add_layer") # {}

\* C24: on every build that reaches the computation of the rear head,
\* calc_regression is called with both x samples strictly positive (0.1 and
\* dx = x_uittredepunt - x_intredepunt) and with a strictly positive query x
\* (the right bound of the cross-section - x_intredepunt), so that the natural
\* logarithm is defined for all three.
C24_RegressionDomain ==
    (AfterBuild /\ ReturnedModel) =>
        LET fit == BoundaryLabelled("phi_hinter").head_level
        IN  /\ fit.x_data[1] > 0
            /\ fit.x_data[2] > 0
            /\ fit.x_data[2] = Tenths(scenario.x_uittredepunt - scenario.x_intredepunt)
            /\ fit.x_interp > 0

\* twice the signed area of a ring up to its k-th edge (shoelace formula):
\* negative for a clockwise ring, x to the right and z upward
RECURSIVE SignedArea2(_, _)
SignedArea2(ring, k) ==
    IF k = 0 THEN 0
    ELSE (ring[k].x * RingNext(ring, k).z - RingNext(ring, k).x * ring[k].z)
             + SignedArea2(ring, k - 1)

Clockwise(ring) == SignedArea2(ring, Len(ring)) < 0

\* C25: every polygon passed to add_layer has its vertices in clockwise order,
\* whichever winding the intersection returned, and has at least three
\* vertices.
C25_LayersClockwise ==
    (AfterBuild /\ ReturnedModel) =>
        \A k \in 1..Len(ret.value.model.layers) :
            /\ Len(ret.value.model.layers[k].points) >= 3
            /\ Clockwise(ret.value.model.layers[k].points)

----------------------------------------------------------------------------
(* SoilLayer.short_name on the names a borehole can give a layer *)

\* the characters of a soil name: letters and the separator
NameCharacters == {"Z", "a", "_"}

SoilNames == UNION { [1..n -> NameCharacters] : n \in 0..MaxNameLen }

InitLayer ==
    /\ \E soil_name \in SoilNames : soillayers = <<SoilLayer(soil_name, 1, 0, 0, 1)>>
    /\ aquifer_number = -1
    /\ points = <<>>
    /\ scenario = NoScenario
    /\ shapely = NoShapely
    /\ calls = <<>>
    /\ ret = NoValue
    /\ inputdata = NoInputData
    /\ loop = NoLoop

ShortName ==
    /\ CanCall
    /\ ret' = Returned(short_name(soillayers[1].soil_name))
    /\ calls' = Remember(Call("short_name", 0, "none"))
    /\ UNCHANGED <<soillayers, aquifer_number, points, scenario, shapely, inputdata, loop>>

NextLayer == ShortName

SpecLayer == InitLayer /\ [][NextLayer]_vars

\* the part of a name before its first "_", the whole name when it has none
BeforeUnderscore(name) ==
    LET at == {i \in 1..Len(name) : name[i] = "_"}
    IN  IF at = {} THEN name
        ELSE [i \in 1..(SetMin(at) - 1) |-> name[i]]

\* C26: for every soil_name, SoilLayer.short_name is the part of soil_name
\* before its first "_" (the whole name when it contains no "_"), also for
\* names that start with "_".
C26_ShortName ==
    (Len(calls) >= 1 /\ Last.op = "short_name") =>
        ret.value = BeforeUnderscore(soillayers[1].soil_name)

----------------------------------------------------------------------------
(* The batch loop of main: every combination of k_zand and                  *)
(* anisotropy_factor over every scenario of inputdata                       *)

\* main.DIJKPAAL_LIMIT_LEFT and DIJKPAAL_LIMIT_RIGHT
DIJKPAAL_LIMIT_LEFT == 404
DIJKPAAL_LIMIT_RIGHT == 490

\* `for k_zand in [6, 13]: for anisotropy_factor in [2, 10]:`
Combinations == << <<6, 2>>, <<6, 10>>, <<13, 2>>, <<13, 10>> >>

\* helpers.get_soil_parameters: the index of the entry of SOILPARAMETERS with
\* the code, 0 for None
get_soil_parameters(soilname) ==
    LET found == {i \in 1..Len(SOILPARAMETERS) : SOILPARAMETERS[i].code = soilname}
    IN  IF found = {} THEN 0 ELSE SetMin(found)

\* Scenario.plot: the exception it raises, "none" when it saves the figure.
\* crosssection.left is min([]) without points, soilparams["k_hor"] is read of
\* None for a soil outside SOILPARAMETERS that is not a sand soil, and
\* soilprofile.bottom raises on a profile without layers
plot(pts, layers) ==
    IF CrosssectionLeft(pts).exc # "none" THEN CrosssectionLeft(pts).exc
    ELSE IF \E i \in 1..Len(layers) :
                /\ short_name(layers[i].soil_name) \notin SOILS_WITH_K_ZAND
                /\ get_soil_parameters(short_name(layers[i].soil_name)) = 0
    THEN "TypeError"
    ELSE SoilProfileBottom(layers).exc

\* Scenario.dijkpaal, int(self.name[1:].split("_")[0]) / 100, in hundredths:
\* the number a scenario name carries after its first character
dijkpaal(name) == name.number

\* the body of `try:` in the loop: Scenario has no field logfile, so the
\* assignment to scenario.logfile raises
TryBody(scn) == "ValueError"

\* a scenario of the batch: its name, its cross-section, the index of its
\* soil profile in the profiles of the batch
BatchScenario(number, pts, ondergrond) ==
    [name |-> [number |-> number], points |-> pts, ondergrond |-> ondergrond]

\* the cross-section of the scenarios of the batch
BatchPoints ==
    from_dataframe_row([ points |-> mirror(Drawing(40, 10, 20)),
                         intredepunt_for |-> 0, uittredepunt_for |-> -40,
                         stijghoogte_intredepunt_mnap |-> 5,
                         stijghoogte_uittredepunt_mnap |-> 2,
                         gehanteerd_polderpeil_mnap |-> 1 ]).points

\* the soil profiles of the batch: one of soils of SOILPARAMETERS, one with a
\* peat layer VE that SOILPARAMETERS does not list
BatchProfiles ==
    << [layers |-> SoilProfileOf(TRUE, 1, FALSE), aquifer_number |-> 1],
       [layers |-> <<SoilLayer(<<"V", "E">>, 4, 1, 0, 1)>> \o SoilProfileOf(FALSE, 1, FALSE),
        aquifer_number |-> 1] >>

\* dike poles left of, at and right of the range of the batch (in hundredths)
BatchNumbers == {40300, 40400, 49100}

BatchScenarios ==
    { BatchScenario(number, BatchPoints, ondergrond) :
        number \in BatchNumbers, ondergrond \in 1..Len(BatchProfiles) }

Running(combination, scn, attempted, f_log) ==
    [combination |-> combination, scenario |-> scn, status |-> "run",
     attempted |-> attempted, f_log |-> f_log]

InitBatch ==
    /\ \E n \in 0..MaxScenarios :
         \E scenarios \in [1..n -> BatchScenarios] :
            inputdata = [soilprofiles |-> BatchProfiles, scenarios |-> scenarios]
    /\ loop = Running(1, 1, {}, <<>>)
    /\ soillayers = <<>>
    /\ aquifer_number = -1
    /\ points = <<>>
    /\ scenario = NoScenario
    /\ shapely = NoShapely
    /\ calls = <<>>
    /\ ret = NoValue

\* whether the loop skips the scenario (`continue`)
OutsideRange(scn) ==
    \/ dijkpaal(scn.name) < 100 * DIJKPAAL_LIMIT_LEFT
    \/ dijkpaal(scn.name) > 100 * DIJKPAAL_LIMIT_RIGHT

\* one pass of `for scenario in inputdata.scenarios`: the try body fails, the
\* handler plots the scenario and writes the failure to the log; an exception
\* of the handler leaves the loops
NextScenario ==
    /\ loop.status = "run"
    /\ loop.scenario <= Len(inputdata.scenarios)
    /\ LET scn == inputdata.scenarios[loop.scenario]
           here == <<loop.combination, loop.scenario>>
           plotted == plot(scn.points, inputdata.soilprofiles[scn.ondergrond].layers)
       IN  IF OutsideRange(scn)
           THEN /\ loop' = [loop EXCEPT !.scenario = @ + 1]
                /\ ret' = ret
           ELSE IF TryBody(scn) = "none"
           THEN /\ loop' = [loop EXCEPT !.scenario = @ + 1,
                                        !.attempted = @ \cup {here}]
                /\ ret' = ret
           ELSE IF plotted # "none"
           THEN /\ loop' = [loop EXCEPT !.status = "raised",
                                        !.attempted = @ \cup {here}]
                /\ ret' = Raised(plotted)
           ELSE /\ loop' = [loop EXCEPT !.scenario = @ + 1,
                                        !.attempted = @ \cup {here},
                                        !.f_log = Append(@, here)]
                /\ ret' = ret
    /\ UNCHANGED <<soillayers, aquifer_number, points, scenario, shapely, calls, inputdata>>

\* the end of `for scenario in inputdata.scenarios`: the results of the
\* combination are drawn and the next combination starts
NextCombination ==
    /\ loop.status = "run"
    /\ loop.scenario > Len(inputdata.scenarios)
    /\ loop' = IF loop.combination < Len(Combinations)
               THEN [loop EXCEPT !.combination = @ + 1, !.scenario = 1]
               ELSE [loop EXCEPT !.status = "done"]
    /\ UNCHANGED <<soillayers, aquifer_number, points, scenario, shapely, calls, ret, inputdata>>

NextBatch ==
    \/ NextScenario
    \/ NextCombination

SpecBatch == InitBatch /\ [][NextBatch]_vars

\* the scenarios of the batch inside the range of dike poles
InsideRange ==
    {i \in 1..Len(inputdata.scenarios) : ~OutsideRange(inputdata.scenarios[i])}

----------------------------------------------------------------------------
(* Claims about repeated calls of Scenario.to_dgeoflow_model, checked       *)
(* under SpecBuild                                                          *)

\* the last two calls were to_dgeoflow_model with the same arguments
BuiltTwice ==
    /\ Len(calls) >= 2
    /\ Prev.op = "to_dgeoflow_model"
    /\ Last.op = "to_dgeoflow_model"
    /\ Prev.arg = Last.arg

\* the ditch landmarks of a cross-section, as get_point_by_point_type finds them
Landmarks(pts) ==
    [t \in {"SLOOT_1D", "SLOOT_1C", "SLOOT_1A", "SLOOT_1B"} |->
        IF Has(pts, t) THEN <<PointOf(pts, t)>> ELSE <<>>]

\* what the call before the last one returned or raised
FirstOutcome ==
    to_dgeoflow_model(Prev.before.points, Prev.before.soillayers, aquifer_number,
                      scenario, shapely, Prev.arg[1], Prev.arg[2], Prev.arg[4],
                      Prev.arg[3]).ret

\* C28: a second call of to_dgeoflow_model with the same arguments finds the
\* same four ditch landmarks as the first, leaves the cross-section exactly as
\* the first call left it (points, coordinates, point types) and returns the
\* same kind of outcome with the same geometry as the first.
C28_Repeatable ==
    BuiltTwice =>
        /\ Landmarks(Last.before.points) = Landmarks(Prev.before.points)
        /\ points = Last.before.points
        /\ Last.exc = Prev.exc
        /\ ret = FirstOutcome

\* a second build of a scenario whose first build cut the cross-section and
\* returned a model
C28_Witness ==
    /\ BuiltTwice
    /\ ReturnedModel
    /\ Last.before.points # Prev.before.points

\* C29: when to_dgeoflow_model returns (log, None) because of the check of the
\* ditch order, it has changed nothing: the cross-section points (coordinates
\* and point types) and the layers of the soil profile are as before the call,
\* and no soil, layer, boundary condition or pipe trajectory was added to a
\* model (the log holds the line of the check only, no model was returned).
C29_CheckChangesNothing ==
    (AfterBuild /\ DegenerateDitch) =>
        /\ points = Last.before.points
        /\ soillayers = Last.before.soillayers
        /\ ret.value.model = None
        /\ ret.value.model.method_calls = <<>>
        /\ Len(ret.value.log) = 1
        /\ ret.value.log[1][1] = "Invalid ditch coordinates"

\* a build that the check of the ditch order ended, on a ditch whose polder
\* side has no run
C29_Witness ==
    /\ AfterBuild
    /\ DegenerateDitch
    /\ PointOf(Found, "SLOOT_1C").x = PointOf(Found, "SLOOT_1A").x
    /\ ReturnedNone
    /\ Len(Found) >= 2

----------------------------------------------------------------------------
(* Two scenarios of one soil profile: InputData.from_pickle gives every     *)
(* scenario of a profile id the same SoilProfile object                     *)

\* the survey rows of the two scenarios: a ditch in order, a ditch bottom
\* without width, an entry point left of the survey
SharedRowShapes == {<<40, 10, 20, 40>>, <<40, 0, 20, 40>>, <<40, 10, 20, 100>>}

SharedRows ==
    { [ points |-> mirror(Drawing(r[1], r[2], r[3])),
        intredepunt_for |-> -1 * (r[1] - r[4]),
        uittredepunt_for |-> -1 * r[1],
        stijghoogte_intredepunt_mnap |-> 5,
        stijghoogte_uittredepunt_mnap |-> 2,
        gehanteerd_polderpeil_mnap |-> 1 ] : r \in SharedRowShapes }

\* the profiles two scenarios share: with a cover, on a clay base, from above
\* the crest
SharedProfiles ==
    { SoilProfileOf(TRUE, 1, FALSE), SoilProfileOf(TRUE, 1, TRUE),
      <<SoilLayer(<<"C", "K">>, 6, 5, 0, 1), SoilLayer(<<"D", "K">>, 5, -1, 0, 1),
        SoilLayer(<<"Z", "A", "_", "A", "q">>, -1, -4, 1, 1)>> }

\* a scenario of from_pickle: its row as Scenario.from_dataframe_row reads it,
\* its soil profile as the index of the shared object
SharedScenario(row) ==
    [ points |-> from_dataframe_row(row).points,
      fields |-> from_dataframe_row(row).scenario,
      ondergrond |-> 1 ]

\* a plausible slip: the build cuts the profile at the level of the first
\* point of the cross-section before it makes the soil polygons
SoilLayersCutAtSurface(pts, layers) == cut_top_at_z(layers, pts[1].z)

\* self.soilprofile.soillayers after to_dgeoflow_model: the method walks the
\* list, keeps each SoilLayer in a SoilPolygon and reads top, bottom, is_aquifer,
\* soil_name and short_name; it assigns to neither the list nor a layer
SoilLayersBuilt(pts, layers) == layers

InitShared ==
    /\ \E r1 \in SharedRows, r2 \in SharedRows, layers \in SharedProfiles :
            /\ from_dataframe_row(r1).exc = "none"
            /\ from_dataframe_row(r2).exc = "none"
            /\ inputdata = [ soilprofiles |-> <<[layers |-> layers, aquifer_number |-> 1]>>,
                             scenarios |-> <<SharedScenario(r1), SharedScenario(r2)>> ]
    /\ shapely \in {lib \in ShapelyConventions : lib.start = 0 /\ ~lib.nodes}
    /\ soillayers = <<>>
    /\ aquifer_number = -1
    /\ points = <<>>
    /\ scenario = NoScenario
    /\ calls = <<>>
    /\ ret = NoValue
    /\ loop = NoLoop

\* to_dgeoflow_model on scenario i of inputdata
BuildShared(i, k_sand, anisotropy_factor, use_surface_boundary, sealevel_rise) ==
    LET scn == inputdata.scenarios[i]
        soilprofile == inputdata.soilprofiles[scn.ondergrond]
        built == to_dgeoflow_model(scn.points, soilprofile.layers,
                                   soilprofile.aquifer_number, scn.fields, shapely,
                                   k_sand, anisotropy_factor, sealevel_rise,
                                   use_surface_boundary)
    IN  /\ CanCall
        /\ inputdata' =
             [inputdata EXCEPT !.scenarios[i].points = built.points,
                               !.soilprofiles[scn.ondergrond].layers =
                                    SoilLayersBuilt(scn.points, @)]
        /\ ret' = built.ret
        /\ calls' = Remember(Call("to_dgeoflow_model",
                                  <<i, k_sand, anisotropy_factor, use_surface_boundary,
                                    sealevel_rise>>,
                                  built.ret.exc))
        /\ UNCHANGED <<soillayers, aquifer_number, points, scenario, shapely, loop>>

NextShared ==
    \E i \in {1, 2}, input \in BuildInputs :
        BuildShared(i, input[1], input[2], input[3], input[4])

SpecShared == InitShared /\ [][NextShared]_vars

\* C30: to_dgeoflow_model never changes the layer list of the soil profile of
\* its scenario, on success and on every failure path; when two scenarios
\* refer to the same SoilProfile object, building one of them, in any order
\* with building the other, leaves the profile the other one reads unchanged.
C30_ProfileUnchanged ==
    [][inputdata'.soilprofiles = inputdata.soilprofiles]_vars

\* both scenarios of the profile were built, the second one after the first
\* and with a model as the outcome
C30_Witness ==
    /\ Len(calls) >= 2
    /\ Prev.op = "to_dgeoflow_model"
    /\ Last.op = "to_dgeoflow_model"
    /\ Prev.arg[1] # Last.arg[1]
    /\ inputdata.scenarios[1].ondergrond = inputdata.scenarios[2].ondergrond
    /\ ReturnedModel

====
